---- MODULE Spec2Model ----
(***************************************************************************)
(* A model of the query-service node of                                    *)
(* go/vt/vttablet/tabletserver/tabletserver.go: the serving-state machine, *)
(* the ordered open/close of the sub-components, the request gate          *)
(* (startRequest/endRequest) and the request envelope (execRequest).       *)
(*                                                                         *)
(* Every access to tsv.mu-protected data is one atomic step; a call into a *)
(* sub-component is one step; requests.Wait() is a step that is enabled    *)
(* only when the WaitGroup counter is zero.  The sub-components themselves *)
(* (schema engine, query engine, ...) are not part of the file: they are   *)
(* modelled by an open/closed flag each, their Open may fail where the     *)
(* code checks an error, and their Close is total and idempotent, as the   *)
(* comment of TabletServer (lines 131-135) requires.                       *)
(***************************************************************************)
EXTENDS Integers, Sequences, FiniteSets, TLC

(***************************************************************************)
(* Bounds of the model.                                                    *)
(***************************************************************************)
\* concurrent callers of SetServingType / StopService
NumCallers == 2
\* concurrent RPC clients
NumClients == 2
\* concurrent callers of StreamHealth
NumSubscribers == 2
\* calls of BroadcastHealth
MaxBroadcasts == 11
\* calls of BroadcastHealth before a call of StreamHealth has registered
MaxStartAt == 1
\* calls of BroadcastHealth while one subscriber streams
MaxStreamed == 4

Callers == 1 .. NumCallers
\* The CheckMySQL goroutine: checkMySQLThrottler has capacity 1, so there is
\* at most one at a time.
Prober == 0
Procs == {Prober} \cup Callers
Clients == 1 .. NumClients

(***************************************************************************)
(* Constants of the program.                                               *)
(***************************************************************************)
StateNotConnected == 0
StateNotServing == 1
StateServing == 2
StateTransitioning == 3
StateShuttingDown == 4

\* Names that report a node that shuts down as serving.
stateNameOfDraining ==
    <<"NOT_SERVING", "NOT_SERVING", "SERVING", "NOT_SERVING", "SERVING">>

stateName == <<"NOT_SERVING", "NOT_SERVING", "SERVING", "NOT_SERVING", "SHUTTING_DOWN">>

actionNone == 0
actionFullStart == 1
actionServeNewType == 2
actionGracefulStop == 3

MASTER == "MASTER"
REPLICA == "REPLICA"
BATCH == "BATCH"
\* the types a node is asked to serve, and the types a caller's target names
NodeTypes == {MASTER, REPLICA}
TabletTypes == {MASTER, REPLICA, BATCH}
\* the alsoAllow lists handed to SetServingType
AlsoAllowLists == {<< >>, <<BATCH>>}

Keyspaces == {"ks", "other"}
Shards == {"-80", "80-"}
\* the target InitDBConfig is given
NodeKeyspace == "ks"
NodeShard == "-80"

\* nil, or a querypb.Target
NilTarget == [Keyspace |-> "", Shard |-> "", TabletType |-> "nil"]
Targets == [Keyspace : Keyspaces, Shard : Shards, TabletType : TabletTypes]
TargetArgs == Targets \cup {NilTarget}
MasterTarget == [Keyspace |-> NodeKeyspace, Shard |-> NodeShard, TabletType |-> MASTER]
\* the targets in the keyspace and shard of the node
NodeTargets == {t \in Targets : t.Keyspace = NodeKeyspace /\ t.Shard = NodeShard}

OK == "nil"
FAILED_PRECONDITION == "FAILED_PRECONDITION"
INVALID_ARGUMENT == "INVALID_ARGUMENT"
INTERNAL == "INTERNAL"
UNKNOWN == "UNKNOWN"
RESOURCE_EXHAUSTED == "RESOURCE_EXHAUSTED"

VARIABLES
    state,        \* tsv.state
    lameduck,     \* tsv.lameduck
    target,       \* tsv.target
    alsoAllow,    \* tsv.alsoAllow
    requests,     \* tsv.requests (the WaitGroup counter)
    svc,          \* the ten sub-components
    configDB,     \* tsv.config.DB has been set by InitDBConfig
    queryTimeout, \* tsv.QueryTimeout: "zero" or "positive"
    aborted,      \* log.Fatal of the time bomb has ended the process
    proc,         \* the callers of SetServingType / StopService / CheckMySQL
    cl,           \* the RPC clients
    draining,     \* the requests in flight when the last stop, or the last
                  \* transition out of Serving, began, not yet ended
    enableHotRowProtection, \* tsv.enableHotRowProtection
    streamHealthIndex,          \* tsv.streamHealthIndex
    streamHealthMap,            \* tsv.streamHealthMap: id -> channel
    lastStreamHealthResponse,   \* tsv.lastStreamHealthResponse
    lastStreamHealthExpired,    \* time.Now() is not before lastStreamHealthExpiration
    sh,                         \* the callers of StreamHealth
    broadcasts,                 \* the calls of BroadcastHealth so far
    conv                        \* a call of convertAndLogError

healthVars == <<streamHealthIndex, streamHealthMap, lastStreamHealthResponse,
                lastStreamHealthExpired, sh, broadcasts>>

vars == <<state, lameduck, target, alsoAllow, requests, svc, configDB,
          queryTimeout, aborted, proc, cl, draining, enableHotRowProtection,
          streamHealthIndex, streamHealthMap, lastStreamHealthResponse,
          lastStreamHealthExpired, sh, broadcasts, conv>>

(***************************************************************************)
(* The sub-components (lines 162-172).                                     *)
(***************************************************************************)
AllClosed ==
    [se |-> FALSE, hw |-> FALSE, hr |-> FALSE, vstreamer |-> FALSE,
     tracker |-> FALSE, watcher |-> FALSE, qe |-> FALSE, qeServing |-> FALSE,
     txThrottler |-> FALSE, te |-> "closed", messager |-> FALSE]

\* The effect of one call on the sub-components.
Apply(s, op) ==
    CASE op = "NewDBConnection"    -> s
      [] op = "se.Open"            -> [s EXCEPT !.se = TRUE]
      [] op = "se.Close"           -> [s EXCEPT !.se = FALSE]
      [] op = "se.MakeNonMaster"   -> s
      [] op = "vstreamer.Open"     -> [s EXCEPT !.vstreamer = TRUE]
      [] op = "vstreamer.Close"    -> [s EXCEPT !.vstreamer = FALSE]
      [] op = "qe.Open"            -> [s EXCEPT !.qe = TRUE, !.qeServing = TRUE]
      [] op = "qe.StopServing"     -> [s EXCEPT !.qeServing = FALSE]
      [] op = "qe.Close"           -> [s EXCEPT !.qe = FALSE, !.qeServing = FALSE]
      [] op = "txThrottler.Open"   -> [s EXCEPT !.txThrottler = TRUE]
      [] op = "txThrottler.Close"  -> [s EXCEPT !.txThrottler = FALSE]
      [] op = "te.Init"            -> [s EXCEPT !.te = "init"]
      [] op = "te.AcceptReadWrite" -> [s EXCEPT !.te = "rw"]
      [] op = "te.AcceptReadOnly"  -> [s EXCEPT !.te = "ro"]
      [] op = "te.Close"           -> [s EXCEPT !.te = "closed"]
      [] op = "hw.Open"            -> [s EXCEPT !.hw = TRUE]
      [] op = "hw.Close"           -> [s EXCEPT !.hw = FALSE]
      [] op = "hr.Open"            -> [s EXCEPT !.hr = TRUE]
      [] op = "hr.Close"           -> [s EXCEPT !.hr = FALSE]
      [] op = "tracker.Open"       -> [s EXCEPT !.tracker = TRUE]
      [] op = "tracker.Close"      -> [s EXCEPT !.tracker = FALSE]
      [] op = "watcher.Open"       -> [s EXCEPT !.watcher = TRUE]
      [] op = "watcher.Close"      -> [s EXCEPT !.watcher = FALSE]
      [] op = "messager.Open"      -> [s EXCEPT !.messager = TRUE]
      [] op = "messager.Close"     -> [s EXCEPT !.messager = FALSE]

\* The calls whose error the code checks.
CanFail(op) ==
    op \in {"NewDBConnection", "se.Open", "qe.Open", "txThrottler.Open",
            "te.Init", "hw.Open"}

\* A fullStart that opens the query engine before the schema engine.
fullStartStepsQueryEngineFirst ==
    <<"NewDBConnection", "qe.Open", "se.Open", "vstreamer.Open",
      "txThrottler.Open", "te.Init">>

\* The statements of fullStart before it delegates to serveNewType.
fullStartSteps ==
    <<"NewDBConnection", "se.Open", "vstreamer.Open", "qe.Open",
      "txThrottler.Open", "te.Init">>

\* The two branches of serveNewType, before transition(StateServing).
serveMasterSteps ==
    <<"watcher.Close", "hr.Close", "hw.Open", "tracker.Open",
      "te.AcceptReadWrite", "messager.Open">>

serveNonMasterStepsWithoutReader ==
    <<"messager.Close", "te.AcceptReadOnly", "tracker.Close", "hw.Close",
      "se.MakeNonMaster", "watcher.Open">>

serveNonMasterSteps ==
    <<"messager.Close", "te.AcceptReadOnly", "tracker.Close", "hw.Close",
      "se.MakeNonMaster", "hr.Open", "watcher.Open">>

\* A waitForShutdown that leaves the transaction engine open.
waitForShutdownStepsKeepsEngine ==
    <<"messager.Close", "txThrottler.Close", "tracker.Close", "qe.StopServing">>

\* The statements of waitForShutdown before requests.Wait().
waitForShutdownSteps ==
    <<"messager.Close", "te.Close", "txThrottler.Close", "tracker.Close",
      "qe.StopServing">>

\* A StopService that leaves the heartbeat writer open.
stopServiceStepsWithoutWriter ==
    <<"qe.Close", "watcher.Close", "vstreamer.Close", "hr.Close", "se.Close">>

\* The statements of StopService after waitForShutdown.
stopServiceSteps ==
    <<"qe.Close", "watcher.Close", "vstreamer.Close", "hr.Close", "hw.Close",
      "se.Close">>

\* A closeAll that leaves the schema engine open.
closeAllStepsWithoutSchema ==
    <<"messager.Close", "te.Close", "txThrottler.Close", "qe.StopServing",
      "qe.Close", "watcher.Close", "tracker.Close", "vstreamer.Close",
      "hr.Close", "hw.Close">>

\* The statements of closeAll before transition(StateNotConnected).
closeAllSteps ==
    <<"messager.Close", "te.Close", "txThrottler.Close", "qe.StopServing",
      "qe.Close", "watcher.Close", "tracker.Close", "vstreamer.Close",
      "hr.Close", "hw.Close", "se.Close">>

(***************************************************************************)
(* The state after NewTabletServer.                                        *)
(***************************************************************************)
IdleProc ==
    [fn |-> "idle", i |-> 0, call |-> "", tabletType |-> "", serving |-> FALSE,
     role |-> "", changed |-> FALSE, err |-> OK, bomb |-> FALSE,
     action |-> actionNone]

\* What a call hands back to its caller: the error, the transaction id, a
\* non-nil result, a non-nil done callback of the hot-row gate.
NoRv == [err |-> OK, tx |-> 0, res |-> FALSE, txDone |-> FALSE]

\* The ids a call is given, the allowOnShutdown it hands to the gate, and
\* the number of queries of a batch or of rows of a lastpk.
NoArg == [tx |-> 0, res |-> 0, allow |-> FALSE, n |-> 0]

\* A client: the operation it called, its context, target and arguments,
\* the frames of the calls in progress, the value the last finished call
\* handed back, the number of requests it has started and not ended, and
\* the name GetState handed back, the number of times the call has added
\* to InternalErrors "Panic", and whether the call has added to tsv.requests;
\* the number of done callbacks the hot-row gate has handed to the call, the
\* number of times the call has invoked one, and the id of the transaction
\* the call has begun and neither committed nor rolled back (0: none).
IdleClient ==
    [pc |-> "idle", op |-> "", tgt |-> NilTarget, isLocal |-> FALSE, arg |-> NoArg,
     stack |-> << >>, rv |-> NoRv, err |-> OK, held |-> 0, name |-> "",
     panics |-> 0, counted |-> FALSE, got |-> 0, released |-> 0, open |-> 0]

\* No StreamHealthResponse.
NilShr == [seq |-> 0, Target |-> NilTarget, Serving |-> FALSE]

\* A caller of StreamHealth: where it is, the id and the snapshot it holds,
\* the error it returns, the snapshots its callback was given (by the
\* number of their broadcast), the broadcasts made when the callback was
\* given the cached snapshot, and the broadcasts its full channel dropped.
IdleSubscriber ==
    [pc |-> "idle", id |-> 0, shr |-> NilShr, err |-> OK, got |-> << >>,
     cachedAt |-> 0, dropped |-> {}]

NoHealthStreams ==
    /\ streamHealthIndex = 0
    /\ streamHealthMap = << >>
    /\ lastStreamHealthResponse = NilShr
    /\ lastStreamHealthExpired = FALSE
    /\ sh = [s \in 1 .. NumSubscribers |-> IdleSubscriber]
    /\ broadcasts = 0

\* The node after NewTabletServer (lines 208-262) with the query timeout qt
\* of its configuration.
NewTabletServerWith(qt) ==
    /\ NoHealthStreams
    /\ state = StateNotConnected
    /\ lameduck = 0
    /\ target = [Keyspace |-> "", Shard |-> "", TabletType |-> ""]
    /\ alsoAllow = << >>
    /\ requests = 0
    /\ svc = AllClosed
    /\ configDB = FALSE
    /\ queryTimeout = qt
    /\ aborted = FALSE
    /\ proc = [p \in Procs |-> IdleProc]
    /\ cl = [c \in Clients |-> IdleClient]
    /\ draining = {}

NewTabletServer == NewTabletServerWith("positive")

\* No call of convertAndLogError.
NoConv == [pc |-> "idle"]

\* A node configured without hot-row protection, and a node with either
\* configuration.
Init == NewTabletServer /\ enableHotRowProtection = FALSE /\ conv = NoConv

InitOperations == NewTabletServer /\ enableHotRowProtection \in BOOLEAN /\ conv = NoConv

(***************************************************************************)
(* The request gate.                                                       *)
(***************************************************************************)
\* The requests that hold a unit of tsv.requests: <<client, depth>>, and
\* <<Prober, 1>> for the reservation of isMySQLReachable.
InFlight ==
    (UNION {{<<c, k>> : k \in 1 .. cl[c].held} : c \in Clients})
    \cup (IF proc[Prober].fn = "isMySQLReachable" /\ proc[Prober].role = "request"
          THEN {<<Prober, 1>>} ELSE {})

\* checkTarget without the loop over alsoAllow.
checkTargetPrimaryOnly(tgt, isLocal, cur, also) ==
    IF tgt # NilTarget
    THEN CASE tgt.Keyspace # cur.Keyspace -> INVALID_ARGUMENT
           [] tgt.Shard # cur.Shard -> INVALID_ARGUMENT
           [] tgt.TabletType # cur.TabletType -> FAILED_PRECONDITION
           [] OTHER -> OK
    ELSE IF ~isLocal THEN INVALID_ARGUMENT ELSE OK

\* The checks of the target in startRequest (lines 1875-1893).
checkTarget(tgt, isLocal, cur, also) ==
    IF tgt # NilTarget
    THEN CASE tgt.Keyspace # cur.Keyspace -> INVALID_ARGUMENT
           [] tgt.Shard # cur.Shard -> INVALID_ARGUMENT
           [] tgt.TabletType # cur.TabletType ->
                IF \E k \in 1 .. Len(also) : tgt.TabletType = also[k]
                THEN OK ELSE FAILED_PRECONDITION
           [] OTHER -> OK
    ELSE IF ~isLocal THEN INVALID_ARGUMENT ELSE OK

\* startRequest without the check of the state.
startRequestAnyState(st, cur, also, tgt, isLocal, allowOnShutdown) ==
    IF tgt # NilTarget
    THEN CASE tgt.Keyspace # cur.Keyspace -> INVALID_ARGUMENT
           [] tgt.Shard # cur.Shard -> INVALID_ARGUMENT
           [] tgt.TabletType # cur.TabletType ->
                IF \E k \in 1 .. Len(also) : tgt.TabletType = also[k]
                THEN OK ELSE FAILED_PRECONDITION
           [] OTHER -> OK
    ELSE IF ~isLocal THEN INVALID_ARGUMENT ELSE OK

\* startRequest: the error it returns (OK: the request is registered).
startRequest(st, cur, also, tgt, isLocal, allowOnShutdown) ==
    IF st = StateServing \/ (allowOnShutdown /\ st = StateShuttingDown)
    THEN checkTarget(tgt, isLocal, cur, also)
    ELSE FAILED_PRECONDITION

(***************************************************************************)
(* InitDBConfig, SetServingType and the transitions it runs.               *)
(***************************************************************************)
InitDBConfig(tt) ==
    /\ UNCHANGED <<healthVars, conv>>
    /\ ~aborted
    /\ state = StateNotConnected
    /\ \A p \in Procs : proc[p].fn = "idle"
    /\ target' = [Keyspace |-> NodeKeyspace, Shard |-> NodeShard, TabletType |-> tt]
    /\ configDB' = TRUE
    /\ UNCHANGED <<state, lameduck, alsoAllow, requests, svc, queryTimeout,
                   aborted, proc, cl, draining,
                   enableHotRowProtection>>

\* A decideAction that lets a caller in during a transition.
decideActionNoReject(st, curType, tabletType, serving) ==
    IF curType = tabletType /\ serving /\ st = StateServing
    THEN [action |-> actionNone, err |-> OK, state |-> st, tabletType |-> curType]
    ELSE IF serving /\ st # StateNotConnected
         THEN [action |-> actionServeNewType, err |-> OK,
               state |-> StateTransitioning, tabletType |-> tabletType]
         ELSE IF serving
              THEN [action |-> actionFullStart, err |-> OK,
                    state |-> StateTransitioning, tabletType |-> tabletType]
              ELSE IF st = StateServing
                   THEN [action |-> actionGracefulStop, err |-> OK,
                         state |-> StateShuttingDown, tabletType |-> tabletType]
                   ELSE [action |-> actionNone, err |-> OK, state |-> st,
                         tabletType |-> tabletType]

\* A decideAction without the shortcut of lines 491-496.
decideActionNoShortcut(st, curType, tabletType, serving) ==
    CASE st = StateNotConnected ->
           IF serving
           THEN [action |-> actionFullStart, err |-> OK,
                 state |-> StateTransitioning, tabletType |-> tabletType]
           ELSE [action |-> actionNone, err |-> OK, state |-> st,
                 tabletType |-> tabletType]
      [] st = StateNotServing ->
           IF serving
           THEN [action |-> actionServeNewType, err |-> OK,
                 state |-> StateTransitioning, tabletType |-> tabletType]
           ELSE [action |-> actionNone, err |-> OK, state |-> st,
                 tabletType |-> tabletType]
      [] st = StateServing ->
           IF ~serving
           THEN [action |-> actionGracefulStop, err |-> OK,
                 state |-> StateShuttingDown, tabletType |-> tabletType]
           ELSE [action |-> actionServeNewType, err |-> OK,
                 state |-> StateTransitioning, tabletType |-> tabletType]
      [] st \in {StateTransitioning, StateShuttingDown} ->
           [action |-> actionNone, err |-> FAILED_PRECONDITION, state |-> st,
            tabletType |-> tabletType]

\* A decideAction that sets NotServing at once when it is asked to stop
\* serving.
decideActionStopsAtOnce(st, curType, tabletType, serving) ==
    IF curType = tabletType /\ serving /\ st = StateServing
    THEN [action |-> actionNone, err |-> OK, state |-> st, tabletType |-> curType]
    ELSE CASE st = StateNotConnected ->
                IF serving
                THEN [action |-> actionFullStart, err |-> OK,
                      state |-> StateTransitioning, tabletType |-> tabletType]
                ELSE [action |-> actionNone, err |-> OK, state |-> st,
                      tabletType |-> tabletType]
           [] st = StateNotServing ->
                IF serving
                THEN [action |-> actionServeNewType, err |-> OK,
                      state |-> StateTransitioning, tabletType |-> tabletType]
                ELSE [action |-> actionNone, err |-> OK, state |-> st,
                      tabletType |-> tabletType]
           [] st = StateServing ->
                IF ~serving
                THEN [action |-> actionGracefulStop, err |-> OK,
                      state |-> StateNotServing, tabletType |-> tabletType]
                ELSE [action |-> actionServeNewType, err |-> OK,
                      state |-> StateTransitioning, tabletType |-> tabletType]
           [] st \in {StateTransitioning, StateShuttingDown} ->
                [action |-> actionNone, err |-> FAILED_PRECONDITION, state |-> st,
                 tabletType |-> tabletType]

\* decideAction: the action, the error, and the state and tablet type it
\* leaves under the lock.
decideAction(st, curType, tabletType, serving) ==
    IF curType = tabletType /\ serving /\ st = StateServing
    THEN [action |-> actionNone, err |-> OK, state |-> st, tabletType |-> curType]
    ELSE CASE st = StateNotConnected ->
                IF serving
                THEN [action |-> actionFullStart, err |-> OK,
                      state |-> StateTransitioning, tabletType |-> tabletType]
                ELSE [action |-> actionNone, err |-> OK, state |-> st,
                      tabletType |-> tabletType]
           [] st = StateNotServing ->
                IF serving
                THEN [action |-> actionServeNewType, err |-> OK,
                      state |-> StateTransitioning, tabletType |-> tabletType]
                ELSE [action |-> actionNone, err |-> OK, state |-> st,
                      tabletType |-> tabletType]
           [] st = StateServing ->
                IF ~serving
                THEN [action |-> actionGracefulStop, err |-> OK,
                      state |-> StateShuttingDown, tabletType |-> tabletType]
                ELSE [action |-> actionServeNewType, err |-> OK,
                      state |-> StateTransitioning, tabletType |-> tabletType]
           [] st \in {StateTransitioning, StateShuttingDown} ->
                [action |-> actionNone, err |-> FAILED_PRECONDITION, state |-> st,
                 tabletType |-> tabletType]

\* The function a caller of SetServingType runs after decideAction.
ActionBody(action) ==
    CASE action = actionNone -> [fn |-> "return", i |-> 0]
      [] action = actionFullStart -> [fn |-> "fullStart", i |-> 1]
      [] action = actionServeNewType -> [fn |-> "serveNewType", i |-> 0]
      [] action = actionGracefulStop -> [fn |-> "gracefulStop", i |-> 0]

\* SetServingType up to the return of decideAction (lines 452-458, 481-522).
SetServingType(p, tabletType, serving, also) ==
    /\ UNCHANGED <<healthVars, conv>>
    /\ ~aborted
    /\ configDB
    /\ proc[p].fn = "idle"
    /\ LET d == decideAction(state, target.TabletType, tabletType, serving)
           b == ActionBody(d.action)
       IN /\ alsoAllow' = also
          /\ target' = [target EXCEPT !.TabletType = d.tabletType]
          /\ state' = d.state
          /\ draining' = IF state = StateServing /\ d.action # actionNone
                          THEN InFlight ELSE draining
          /\ proc' = [proc EXCEPT ![p] =
                        IF d.action = actionNone
                        THEN [IdleProc EXCEPT !.call = "SetServingType",
                                              !.fn = b.fn, !.err = d.err]
                        ELSE [IdleProc EXCEPT !.call = "SetServingType",
                                              !.tabletType = tabletType,
                                              !.serving = serving,
                                              !.fn = b.fn, !.i = b.i,
                                              !.changed = TRUE,
                                              !.action = d.action]]
    /\ UNCHANGED <<lameduck, requests, svc, configDB, queryTimeout, aborted, cl,
                   enableHotRowProtection>>

\* A caller of SetServingType that has run its action and returns
\* (stateChanged, err).
Returning(me) ==
    [IdleProc EXCEPT !.call = "SetServingType", !.fn = "return",
                     !.changed = me.changed, !.err = me.err]

\* An error returned by a sub-component.
SubsystemError == "error"

\* fullStart (lines 524-546): one statement; an Open that fails makes
\* SetServingType call closeAll.
fullStart(p) ==
    /\ UNCHANGED <<healthVars, conv>>
    /\ ~aborted
    /\ proc[p].fn = "fullStart"
    /\ LET op == fullStartSteps[proc[p].i]
       IN \/ /\ svc' = Apply(svc, op)
             /\ proc' = [proc EXCEPT ![p] =
                           IF proc[p].i < Len(fullStartSteps)
                           THEN [@ EXCEPT !.i = @ + 1]
                           ELSE [@ EXCEPT !.fn = "serveNewType", !.i = 0]]
          \/ /\ CanFail(op)
             /\ svc' = svc
             /\ proc' = [proc EXCEPT ![p] =
                           [@ EXCEPT !.fn = "closeAll", !.i = 1, !.err = SubsystemError]]
    /\ UNCHANGED <<state, lameduck, target, alsoAllow, requests, configDB,
                   queryTimeout, aborted, cl, draining,
                   enableHotRowProtection>>

\* The branch of serveNewType for a tablet type.
serveSteps(role) == IF role = MASTER THEN serveMasterSteps ELSE serveNonMasterSteps

\* A transition that leaves the state as it is.
transitionDropped(newState) == state' = state

\* transition(newState): the state change under the lock.
transition(newState) == state' = newState

\* serveNewType (lines 548-571): the read of target.TabletType (made
\* without the lock), then one statement of the branch at a time, then
\* transition(StateServing).
serveNewType(p) ==
    /\ UNCHANGED <<healthVars, conv>>
    /\ ~aborted
    /\ proc[p].fn = "serveNewType"
    /\ LET i == proc[p].i
           steps == serveSteps(proc[p].role)
       IN \/ /\ i = 0
             /\ proc' = [proc EXCEPT ![p] =
                           [@ EXCEPT !.i = 1,
                                     !.role = IF target.TabletType = MASTER
                                              THEN MASTER ELSE "other"]]
             /\ UNCHANGED <<state, svc>>
          \/ /\ i \in 1 .. Len(steps)
             /\ svc' = Apply(svc, steps[i])
             /\ proc' = [proc EXCEPT ![p] = [@ EXCEPT !.i = i + 1]]
             /\ UNCHANGED state
          \/ /\ i \in 1 .. Len(steps)
             /\ CanFail(steps[i])
             /\ proc' = [proc EXCEPT ![p] =
                           [@ EXCEPT !.fn = "closeAll", !.i = 1, !.err = SubsystemError]]
             /\ UNCHANGED <<state, svc>>
          \/ /\ i = Len(steps) + 1
             /\ transition(StateServing)
             /\ proc' = [proc EXCEPT ![p] = Returning(proc[p])]
             /\ UNCHANGED svc
    /\ UNCHANGED <<lameduck, target, alsoAllow, requests, configDB, queryTimeout,
                   aborted, cl, draining,
                   enableHotRowProtection>>

\* gracefulStop (lines 573-577): setTimeBomb, waitForShutdown,
\* transition(StateNotServing), and the deferred close of the time bomb.
gracefulStop(p) ==
    /\ UNCHANGED <<healthVars, conv>>
    /\ ~aborted
    /\ proc[p].fn = "gracefulStop"
    /\ \/ /\ proc[p].i = 0
          /\ proc' = [proc EXCEPT ![p] =
                        [@ EXCEPT !.bomb = TRUE, !.fn = "waitForShutdown", !.i = 1]]
          /\ UNCHANGED state
       \/ /\ proc[p].i = 1
          /\ transition(StateNotServing)
          /\ proc' = [proc EXCEPT ![p] = [@ EXCEPT !.i = 2]]
       \/ /\ proc[p].i = 2
          /\ proc' = [proc EXCEPT ![p] = Returning(proc[p])]
          /\ UNCHANGED state
    /\ UNCHANGED <<lameduck, target, alsoAllow, requests, svc, configDB,
                   queryTimeout, aborted, cl, draining,
                   enableHotRowProtection>>

\* A Wait that returns at once.
requestsWaitReturns(n) == TRUE

\* requests.Wait() returns only when the counter is zero.
requestsWait(n) == n = 0

\* waitForShutdown (lines 608-615), called by gracefulStop and StopService.
waitForShutdown(p) ==
    /\ UNCHANGED <<healthVars, conv>>
    /\ ~aborted
    /\ proc[p].fn = "waitForShutdown"
    /\ LET i == proc[p].i
       IN \/ /\ i \in 1 .. Len(waitForShutdownSteps)
             /\ svc' = Apply(svc, waitForShutdownSteps[i])
             /\ proc' = [proc EXCEPT ![p] = [@ EXCEPT !.i = i + 1]]
          \/ /\ i = Len(waitForShutdownSteps) + 1
             /\ requestsWait(requests)
             /\ svc' = svc
             /\ proc' = [proc EXCEPT ![p] =
                           [@ EXCEPT !.fn = IF proc[p].call = "SetServingType"
                                            THEN "gracefulStop" ELSE "StopService",
                                     !.i = 1]]
    /\ UNCHANGED <<state, lameduck, target, alsoAllow, requests, configDB,
                   queryTimeout, aborted, cl, draining,
                   enableHotRowProtection>>

\* closeAll (lines 619-632), called when fullStart or serveNewType fails.
closeAll(p) ==
    /\ UNCHANGED <<healthVars, conv>>
    /\ ~aborted
    /\ proc[p].fn = "closeAll"
    /\ LET i == proc[p].i
       IN \/ /\ i \in 1 .. Len(closeAllSteps)
             /\ svc' = Apply(svc, closeAllSteps[i])
             /\ proc' = [proc EXCEPT ![p] = [@ EXCEPT !.i = i + 1]]
             /\ UNCHANGED state
          \/ /\ i = Len(closeAllSteps) + 1
             /\ transition(StateNotConnected)
             /\ proc' = [proc EXCEPT ![p] = Returning(proc[p])]
             /\ UNCHANGED svc
    /\ UNCHANGED <<lameduck, target, alsoAllow, requests, configDB, queryTimeout,
                   aborted, cl, draining,
                   enableHotRowProtection>>

\* A return of SetServingType that leaves the lameduck flag.
SetServingTypeReturnKeepsLameduck(p) ==
    /\ UNCHANGED <<healthVars, conv>>
    /\ ~aborted
    /\ proc[p].fn = "return"
    /\ proc' = [proc EXCEPT ![p] = IdleProc]
    /\ UNCHANGED <<state, lameduck, target, alsoAllow, requests, svc, configDB,
                   queryTimeout, aborted, cl, draining,
                   enableHotRowProtection>>

\* The return of SetServingType: the deferred ExitLameduck (line 453).
SetServingTypeReturn(p) ==
    /\ UNCHANGED <<healthVars, conv>>
    /\ ~aborted
    /\ proc[p].fn = "return"
    /\ lameduck' = 0
    /\ proc' = [proc EXCEPT ![p] = IdleProc]
    /\ UNCHANGED <<state, target, alsoAllow, requests, svc, configDB,
                   queryTimeout, aborted, cl, draining,
                   enableHotRowProtection>>

(***************************************************************************)
(* StopService, CheckMySQL and the time bomb.                              *)
(***************************************************************************)
\* StopService (lines 584-606).  i = 0: the call (setTimeBomb, then the
\* check and setState under the lock); 1..6: the closes after
\* waitForShutdown; 7: transition(StateNotConnected); 8: the return at the
\* end, 9: the return of line 590; both close the time bomb.
StopService(p) ==
    /\ UNCHANGED <<healthVars, conv>>
    /\ ~aborted
    /\ \/ proc[p].fn = "idle" /\ p \in Callers
       \/ proc[p].fn = "StopService"
    /\ LET i == proc[p].i
           me == [proc[p] EXCEPT !.fn = "StopService",
                                 !.call = IF p = Prober THEN "CheckMySQL" ELSE "StopService"]
       IN \/ /\ i = 0
             /\ state \notin {StateServing, StateNotServing}
             /\ proc' = [proc EXCEPT ![p] =
                           [me EXCEPT !.bomb = TRUE,
                                      !.i = Len(stopServiceSteps) + 3]]
             /\ UNCHANGED <<state, svc, draining>>
          \/ /\ i = 0
             /\ state \in {StateServing, StateNotServing}
             /\ state' = StateShuttingDown
             /\ draining' = InFlight
             /\ proc' = [proc EXCEPT ![p] =
                           [me EXCEPT !.bomb = TRUE, !.fn = "waitForShutdown", !.i = 1]]
             /\ UNCHANGED svc
          \/ /\ i \in 1 .. Len(stopServiceSteps)
             /\ svc' = Apply(svc, stopServiceSteps[i])
             /\ proc' = [proc EXCEPT ![p] = [@ EXCEPT !.i = i + 1]]
             /\ UNCHANGED <<state, draining>>
          \/ /\ i = Len(stopServiceSteps) + 1
             /\ transition(StateNotConnected)
             /\ proc' = [proc EXCEPT ![p] = [@ EXCEPT !.i = i + 1]]
             /\ UNCHANGED <<svc, draining>>
          \/ /\ i \in {Len(stopServiceSteps) + 2, Len(stopServiceSteps) + 3}
             /\ proc' = [proc EXCEPT ![p] =
                           IF p = Prober THEN [IdleProc EXCEPT !.fn = "release"]
                           ELSE IdleProc]
             /\ UNCHANGED <<state, svc, draining>>
    /\ UNCHANGED <<lameduck, target, alsoAllow, requests, configDB, queryTimeout,
                   aborted, cl,
                   enableHotRowProtection>>

\* A probe that leaves the state NotServing while it asks MySQL.
CheckMySQLKeepsState ==
    /\ UNCHANGED <<healthVars, conv>>
    /\ ~aborted
    /\ proc[Prober].fn = "idle"
    /\ \/ /\ state = StateServing
          /\ requests' = requests + 1
          /\ proc' = [proc EXCEPT ![Prober] =
                        [IdleProc EXCEPT !.call = "CheckMySQL",
                                         !.fn = "isMySQLReachable", !.role = "request"]]
       \/ /\ state = StateNotServing
          /\ proc' = [proc EXCEPT ![Prober] =
                        [IdleProc EXCEPT !.call = "CheckMySQL",
                                         !.fn = "isMySQLReachable", !.role = "transition"]]
          /\ UNCHANGED requests
       \/ /\ state \notin {StateServing, StateNotServing}
          /\ proc' = [proc EXCEPT ![Prober] =
                        [IdleProc EXCEPT !.call = "CheckMySQL", !.fn = "release"]]
          /\ UNCHANGED requests
    /\ UNCHANGED <<state, lameduck, target, alsoAllow, svc, configDB, queryTimeout,
                   aborted, cl, draining,
                   enableHotRowProtection>>

\* CheckMySQL (lines 680-696) up to the unlock of isMySQLReachable (lines
\* 701-720): the throttler is free when no probe goroutine is alive.
CheckMySQL ==
    /\ UNCHANGED <<healthVars, conv>>
    /\ ~aborted
    /\ proc[Prober].fn = "idle"
    /\ \/ /\ state = StateServing
          /\ requests' = requests + 1
          /\ proc' = [proc EXCEPT ![Prober] =
                        [IdleProc EXCEPT !.call = "CheckMySQL",
                                         !.fn = "isMySQLReachable", !.role = "request"]]
          /\ UNCHANGED state
       \/ /\ state = StateNotServing
          /\ state' = StateTransitioning
          /\ proc' = [proc EXCEPT ![Prober] =
                        [IdleProc EXCEPT !.call = "CheckMySQL",
                                         !.fn = "isMySQLReachable", !.role = "transition"]]
          /\ UNCHANGED requests
       \/ /\ state \notin {StateServing, StateNotServing}
          /\ proc' = [proc EXCEPT ![Prober] =
                        [IdleProc EXCEPT !.call = "CheckMySQL", !.fn = "release"]]
          /\ UNCHANGED <<state, requests>>
    /\ UNCHANGED <<lameduck, target, alsoAllow, svc, configDB, queryTimeout,
                   aborted, cl, draining,
                   enableHotRowProtection>>

\* An isMySQLReachable whose unit of the drain counter is still held when
\* CheckMySQL goes on to StopService.
isMySQLReachableHoldsUnit(reachable) ==
    /\ UNCHANGED <<healthVars, conv>>
    /\ ~aborted
    /\ proc[Prober].fn = "isMySQLReachable"
    /\ \/ /\ proc[Prober].role = "request"
          /\ requests' = IF reachable THEN requests - 1 ELSE requests
          /\ draining' = IF reachable THEN draining \ {<<Prober, 1>>} ELSE draining
          /\ UNCHANGED state
       \/ /\ proc[Prober].role = "transition"
          /\ transition(StateNotServing)
          /\ UNCHANGED <<requests, draining>>
    /\ proc' = [proc EXCEPT ![Prober] =
                  IF reachable THEN [IdleProc EXCEPT !.call = "CheckMySQL", !.fn = "release"]
                  ELSE [IdleProc EXCEPT !.call = "CheckMySQL", !.fn = "StopService"]]
    /\ UNCHANGED <<lameduck, target, alsoAllow, svc, configDB, queryTimeout,
                   aborted, cl,
                   enableHotRowProtection>>

\* The rest of isMySQLReachable: the probe answers, the deferred
\* requests.Done() or transition(StateNotServing) runs, and CheckMySQL
\* calls StopService when the answer is false.
isMySQLReachable(reachable) ==
    /\ UNCHANGED <<healthVars, conv>>
    /\ ~aborted
    /\ proc[Prober].fn = "isMySQLReachable"
    /\ \/ /\ proc[Prober].role = "request"
          /\ requests' = requests - 1
          /\ draining' = draining \ {<<Prober, 1>>}
          /\ UNCHANGED state
       \/ /\ proc[Prober].role = "transition"
          /\ transition(StateNotServing)
          /\ UNCHANGED <<requests, draining>>
    /\ proc' = [proc EXCEPT ![Prober] =
                  IF reachable THEN [IdleProc EXCEPT !.call = "CheckMySQL", !.fn = "release"]
                  ELSE [IdleProc EXCEPT !.call = "CheckMySQL", !.fn = "StopService"]]
    /\ UNCHANGED <<lameduck, target, alsoAllow, svc, configDB, queryTimeout,
                   aborted, cl,
                   enableHotRowProtection>>

\* The end of the CheckMySQL goroutine: the sleep and the Release of the
\* throttler.
CheckMySQLRelease ==
    /\ UNCHANGED <<healthVars, conv>>
    /\ ~aborted
    /\ proc[Prober].fn = "release"
    /\ proc' = [proc EXCEPT ![Prober] = IdleProc]
    /\ UNCHANGED <<state, lameduck, target, alsoAllow, requests, svc, configDB,
                   queryTimeout, aborted, cl, draining,
                   enableHotRowProtection>>

\* A time bomb that no return of a stop disarms.
TimeBombNeverDisarmed ==
    /\ ~aborted
    /\ queryTimeout # "zero"
    /\ aborted' = TRUE
    /\ state' = StateNotConnected
    /\ lameduck' = 0
    /\ alsoAllow' = << >>
    /\ requests' = 0
    /\ svc' = AllClosed
    /\ proc' = [p \in Procs |-> IdleProc]
    /\ cl' = [c \in Clients |-> IdleClient]
    /\ draining' = {}
    /\ streamHealthIndex' = 0
    /\ streamHealthMap' = << >>
    /\ lastStreamHealthResponse' = NilShr
    /\ lastStreamHealthExpired' = FALSE
    /\ sh' = [s \in 1 .. NumSubscribers |-> IdleSubscriber]
    /\ broadcasts' = 0
    /\ UNCHANGED <<target, configDB, queryTimeout, enableHotRowProtection, conv>>

\* The goroutine of setTimeBomb (lines 634-650): while a stop has not closed
\* its done channel the timer may fire, and log.Fatal ends the process: its
\* memory is gone, and nothing runs any more.
TimeBomb ==
    /\ ~aborted
    /\ queryTimeout # "zero"
    /\ \E p \in Procs : proc[p].bomb
    /\ aborted' = TRUE
    /\ state' = StateNotConnected
    /\ lameduck' = 0
    /\ alsoAllow' = << >>
    /\ requests' = 0
    /\ svc' = AllClosed
    /\ proc' = [p \in Procs |-> IdleProc]
    /\ cl' = [c \in Clients |-> IdleClient]
    /\ draining' = {}
    /\ streamHealthIndex' = 0
    /\ streamHealthMap' = << >>
    /\ lastStreamHealthResponse' = NilShr
    /\ lastStreamHealthExpired' = FALSE
    /\ sh' = [s \in 1 .. NumSubscribers |-> IdleSubscriber]
    /\ broadcasts' = 0
    /\ UNCHANGED <<target, configDB, queryTimeout, enableHotRowProtection, conv>>

(***************************************************************************)
(* The lameduck flag and the health it reports.                            *)
(***************************************************************************)
\* EnterLameduck (lines 431-433).
EnterLameduck ==
    /\ UNCHANGED <<healthVars, conv>>
    /\ ~aborted
    /\ lameduck' = 1
    /\ UNCHANGED <<state, target, alsoAllow, requests, svc, configDB,
                   queryTimeout, aborted, proc, cl, draining,
                   enableHotRowProtection>>

\* ExitLameduck (lines 436-438).
ExitLameduck ==
    /\ UNCHANGED <<healthVars, conv>>
    /\ ~aborted
    /\ lameduck' = 0
    /\ UNCHANGED <<state, target, alsoAllow, requests, svc, configDB,
                   queryTimeout, aborted, proc, cl, draining,
                   enableHotRowProtection>>

\* GetState (lines 326-334), called by IsServing: the read of the flag,
\* which answers NOT_SERVING when it is set, then the read of the state
\* under the lock.
GetState(c) ==
    /\ UNCHANGED <<healthVars, conv>>
    /\ ~aborted
    /\ \/ /\ cl[c].pc = "idle"
          /\ cl' = [cl EXCEPT ![c] =
                      IF lameduck # 0
                      THEN [IdleClient EXCEPT !.pc = "ret", !.op = "IsServing",
                                              !.name = "NOT_SERVING",
                                              !.held = cl[c].held]
                      ELSE [IdleClient EXCEPT !.pc = "GetState", !.op = "IsServing",
                                              !.held = cl[c].held]]
       \/ /\ cl[c].pc = "GetState"
          /\ cl' = [cl EXCEPT ![c] =
                      [@ EXCEPT !.pc = "ret", !.name = stateName[state + 1]]]
    /\ UNCHANGED <<state, lameduck, target, alsoAllow, requests, svc, configDB,
                   queryTimeout, aborted, proc, draining,
                   enableHotRowProtection>>

\* IsServing (lines 356-358): what it makes of the name.
IsServing(name) == name = "SERVING"

(***************************************************************************)
(* The request envelope.                                                   *)
(***************************************************************************)
\* endRequest: requests.Done() for the innermost request of client c.
endRequest(c) ==
    /\ requests' = requests - 1
    /\ draining' = draining \ {<<c, cl[c].held>>}

\* The error an engine returns from the body of a request.
BodyError == "error"

\* execRequest (lines 1475-1513) up to the call of the body: startRequest
\* under the lock; a refused request returns the error.
execRequest(c, tgt, isLocal, allowOnShutdown) ==
    /\ UNCHANGED <<healthVars, conv>>
    /\ ~aborted
    /\ cl[c].pc = "idle"
    /\ LET err == startRequest(state, target, alsoAllow, tgt, isLocal, allowOnShutdown)
       IN IF err = OK
          THEN /\ requests' = requests + 1
               /\ cl' = [cl EXCEPT ![c] =
                           [IdleClient EXCEPT !.pc = "exec", !.op = "execRequest",
                                              !.tgt = tgt, !.isLocal = isLocal,
                                              !.arg = [NoArg EXCEPT !.allow = allowOnShutdown],
                                              !.held = cl[c].held + 1,
                                              !.counted = TRUE]]
          ELSE /\ requests' = requests
               /\ cl' = [cl EXCEPT ![c] =
                           [IdleClient EXCEPT !.pc = "ret", !.op = "execRequest",
                                              !.tgt = tgt, !.isLocal = isLocal,
                                              !.arg = [NoArg EXCEPT !.allow = allowOnShutdown],
                                              !.err = err, !.held = cl[c].held]]
    /\ UNCHANGED <<state, lameduck, target, alsoAllow, svc, configDB,
                   queryTimeout, aborted, proc, draining, enableHotRowProtection>>

\* The body of the request ends (it returns, returns an error, or panics)
\* and the deferred endRequest runs.  handlePanicAndSendLogStats (lines
\* 1541-1566) recovers a panic, adds to InternalErrors "Panic" and puts the
\* UNKNOWN error in the log record; the named result err stays as
\* startRequest set it: nil.
execRequestEnd(c, outcome) ==
    /\ UNCHANGED <<healthVars, conv>>
    /\ ~aborted
    /\ cl[c].pc = "exec"
    /\ endRequest(c)
    /\ cl' = [cl EXCEPT ![c] =
                [@ EXCEPT !.pc = "ret",
                          !.err = IF outcome = "error" THEN BodyError ELSE OK,
                          !.panics = IF outcome = "panic" THEN @ + 1 ELSE @,
                          !.held = @ - 1]]
    /\ UNCHANGED <<state, lameduck, target, alsoAllow, svc, configDB,
                   queryTimeout, aborted, proc, enableHotRowProtection>>

\* The caller has the result.
ClientReturn(c) ==
    /\ UNCHANGED <<healthVars, conv>>
    /\ ~aborted
    /\ cl[c].pc = "ret"
    /\ cl' = [cl EXCEPT ![c] = [IdleClient EXCEPT !.held = cl[c].held]]
    /\ UNCHANGED <<state, lameduck, target, alsoAllow, requests, svc, configDB,
                   queryTimeout, aborted, proc, draining, enableHotRowProtection>>

Outcomes == {"ok", "error", "panic"}

(***************************************************************************)
(* The operations of the query service.  An operation that hands one body  *)
(* to execRequest is a leaf; the others call leaves, and ExecuteBatch and  *)
(* execDML also start a request of their own.  A step of an operation runs *)
(* its local code up to and including its next access to the node:         *)
(* startRequest, endRequest, or its return.                                *)
(***************************************************************************)
\* transaction and connection ids: 0 is "none"
MaxId == 2
Ids == 0 .. MaxId
\* the longest query list handed to ExecuteBatch
MaxQueries == 1

AllowedOnShutdownOps ==
    {"Commit", "Rollback", "Prepare", "CommitPrepared", "RollbackPrepared",
     "CreateTransaction", "StartCommit", "SetRollback", "ConcludeTransaction",
     "ReadTransaction", "Release"}

LeafOps ==
    AllowedOnShutdownOps \cup {"Begin", "Execute", "StreamExecute", "MessageStream"}

\* The operations that call verifyTarget and then stream from the
\* vstreamer, without startRequest (lines 1359-1388).
VStreamOps == {"VStream", "VStreamRows", "VStreamResults"}

MessageDMLOps == {"MessageAck", "PostponeMessages", "PurgeMessages"}

CompositeOps ==
    MessageDMLOps \cup {"ExecuteBatch", "BeginExecute", "BeginExecuteBatch",
                        "ReserveBeginExecute", "ReserveExecute"}

Ops == LeafOps \cup CompositeOps \cup VStreamOps

\* Every operation hands false to the gate.
allowOnShutdownNever(fn, tx) == FALSE

\* The allowOnShutdown argument each operation hands to the gate.
allowOnShutdown(fn, tx) ==
    CASE fn \in AllowedOnShutdownOps -> TRUE
      [] fn = "Execute" -> tx # 0
      [] OTHER -> FALSE

\* The checks an operation makes on its ids before it reaches the gate
\* (Execute lines 981-983, Release lines 1451-1453).
precheck(fn, tx, res) ==
    CASE fn = "Execute" /\ tx # 0 /\ res # 0 /\ tx # res -> INTERNAL
      [] fn = "Release" /\ res = 0 /\ tx = 0 -> INVALID_ARGUMENT
      [] OTHER -> OK

\* A leaf that goes through the gate before it checks its ids.
leafErrorGateFirst(fn, tx, res, tgt, isLocal) ==
    IF startRequest(state, target, alsoAllow, tgt, isLocal, allowOnShutdown(fn, tx)) # OK
    THEN startRequest(state, target, alsoAllow, tgt, isLocal, allowOnShutdown(fn, tx))
    ELSE precheck(fn, tx, res)

\* The error of a call of a leaf: its checks, then startRequest.
leafError(fn, tx, res, tgt, isLocal) ==
    IF precheck(fn, tx, res) # OK
    THEN precheck(fn, tx, res)
    ELSE startRequest(state, target, alsoAllow, tgt, isLocal, allowOnShutdown(fn, tx))

\* The loop of verifyTarget over alsoAllow (lines 1528-1532), from its
\* element k on: true when it returns nil.
RECURSIVE rangeAlsoAllow(_, _, _)
rangeAlsoAllow(also, k, tabletType) ==
    IF k > Len(also) THEN FALSE
    ELSE IF tabletType = also[k] THEN TRUE
    ELSE rangeAlsoAllow(also, k + 1, tabletType)

\* A verifyTarget that lets a call without a target in from any context.
verifyTargetAnyContext(cur, also, tgt, isLocal) ==
    IF tgt # NilTarget
    THEN IF tgt.Keyspace # cur.Keyspace THEN INVALID_ARGUMENT
         ELSE IF tgt.Shard # cur.Shard THEN INVALID_ARGUMENT
         ELSE IF tgt.TabletType # cur.TabletType
         THEN IF rangeAlsoAllow(also, 1, tgt.TabletType)
              THEN OK ELSE FAILED_PRECONDITION
         ELSE OK
    ELSE OK

\* verifyTarget (lines 1516-1539): the checks of the target, in any state.
verifyTarget(cur, also, tgt, isLocal) ==
    IF tgt # NilTarget
    THEN IF tgt.Keyspace # cur.Keyspace THEN INVALID_ARGUMENT
         ELSE IF tgt.Shard # cur.Shard THEN INVALID_ARGUMENT
         ELSE IF tgt.TabletType # cur.TabletType
         THEN IF rangeAlsoAllow(also, 1, tgt.TabletType)
              THEN OK ELSE FAILED_PRECONDITION
         ELSE OK
    ELSE IF ~isLocal THEN INVALID_ARGUMENT ELSE OK

\* A VStream family that goes through the gate of startRequest.
streamErrorGated(fn, n, tgt, isLocal) ==
    startRequest(state, target, alsoAllow, tgt, isLocal, FALSE)

\* The error of a call of VStream, VStreamRows (n: the rows of lastpk, one
\* when there is no lastpk) or VStreamResults, before it streams.
streamError(fn, n, tgt, isLocal) ==
    IF verifyTarget(target, alsoAllow, tgt, isLocal) # OK
    THEN verifyTarget(target, alsoAllow, tgt, isLocal)
    ELSE IF fn = "VStreamRows" /\ n # 1 THEN INVALID_ARGUMENT ELSE OK

\* No call of an engine.
NoEngine == [call |-> "", id |-> 0]

\* A connection id that is the transaction id alone.
connIDTransactionOnly(transactionID, reservedID) == transactionID

\* The connection id Execute hands to the QueryExecutor (lines 999-1002).
connID(transactionID, reservedID) ==
    IF transactionID # 0 THEN transactionID ELSE reservedID

\* A Release that rolls the transaction back whenever it has one.
engineCallRollbackFirst(fn, tx, res) ==
    CASE fn = "Execute" -> [call |-> "qre.Execute", id |-> connID(tx, res)]
      [] fn = "Release" ->
            IF tx # 0 THEN [call |-> "te.Rollback", id |-> tx]
            ELSE [call |-> "te.Release", id |-> res]
      [] fn = "Rollback" -> [call |-> "te.Rollback", id |-> tx]
      [] fn = "Commit" -> [call |-> "te.Commit", id |-> tx]
      [] OTHER -> NoEngine

\* The call the body of a leaf makes, and the id it hands over: Execute
\* (lines 998-1017), Release (lines 1462-1468), Rollback (line 824), Commit
\* (line 797).
engineCall(fn, tx, res) ==
    CASE fn = "Execute" -> [call |-> "qre.Execute", id |-> connID(tx, res)]
      [] fn = "Release" ->
            IF res # 0 THEN [call |-> "te.Release", id |-> res]
            ELSE [call |-> "te.Rollback", id |-> tx]
      [] fn = "Rollback" -> [call |-> "te.Rollback", id |-> tx]
      [] fn = "Commit" -> [call |-> "te.Commit", id |-> tx]
      [] OTHER -> NoEngine

\* The frame of a call in progress.
Frame(fn, tx, res, asTransaction, n) ==
    [fn |-> fn, pc |-> "entry", tx |-> tx, res |-> res,
     asTransaction |-> asTransaction, n |-> n, txDone |-> FALSE, err |-> OK,
     qr |-> FALSE, engine |-> NoEngine]

\* The arguments that matter to each operation.
Args(op) ==
    CASE op \in {"Execute", "Release"} ->
            {Frame(op, tx, res, FALSE, 0) : tx \in Ids, res \in Ids}
      [] op = "ExecuteBatch" ->
            {Frame(op, tx, 0, a, n) : tx \in Ids, a \in BOOLEAN, n \in 0 .. MaxQueries}
      [] op = "BeginExecuteBatch" ->
            {Frame(op, 0, 0, a, n) : a \in BOOLEAN, n \in 0 .. MaxQueries}
      [] op = "BeginExecute" -> {Frame(op, 0, res, FALSE, 0) : res \in Ids}
      [] op = "ReserveExecute" -> {Frame(op, tx, 0, FALSE, 0) : tx \in Ids}
      [] op \in MessageDMLOps -> {Frame("execDML", 0, 0, FALSE, 0)}
      [] op = "VStreamRows" -> {Frame(op, 0, 0, FALSE, n) : n \in 0 .. 1}
      [] OTHER -> {Frame(op, 0, 0, FALSE, 0)}

\* What the body of a leaf hands back: te.Begin, te.ReserveBegin and
\* te.Reserve give an id, Execute a result, the hot-row gate a done callback
\* when the key is not empty; a recovered panic leaves every result zero.
bodyResult(fn, outcome, id, txDone) ==
    CASE outcome = "ok" ->
            [err |-> OK,
             tx |-> IF fn \in {"Begin", "ReserveBegin", "Reserve"} THEN id ELSE 0,
             res |-> (fn = "Execute"),
             txDone |-> (fn = "waitForSameRangeTransactions" /\ txDone)]
      [] outcome = "error" -> [NoRv EXCEPT !.err = BodyError]
      [] outcome = "panic" -> NoRv

\* The next access of an operation.
CallLeaf(f, fn, tx, res) ==
    [act |-> "call", fn |-> fn, tx |-> tx, res |-> res, allow |-> FALSE,
     err |-> OK, f |-> [f EXCEPT !.pc = fn], callee |-> f]
CallBatch(f, callee) ==
    [act |-> "push", fn |-> "", tx |-> 0, res |-> 0, allow |-> FALSE,
     err |-> OK, f |-> [f EXCEPT !.pc = callee.fn], callee |-> callee]
Start(f, allow) ==
    [act |-> "start", fn |-> "", tx |-> 0, res |-> 0, allow |-> allow,
     err |-> OK, f |-> [f EXCEPT !.pc = "startRequest"], callee |-> f]
EndWithoutDone(f, err) ==
    [act |-> "return", fn |-> "", tx |-> 0, res |-> 0, allow |-> FALSE,
     err |-> err, f |-> f, callee |-> f]
End(f, err) ==
    [act |-> "end", fn |-> "", tx |-> 0, res |-> 0, allow |-> FALSE,
     err |-> err, f |-> f, callee |-> f]
Return(f, err) ==
    [act |-> "return", fn |-> "", tx |-> 0, res |-> 0, allow |-> FALSE,
     err |-> err, f |-> f, callee |-> f]
\* The deferred handlePanicAndSendLogStats of ExecuteBatch and execDML
\* recovers a panic; the deferred endRequest runs; the error returned is nil.
Recover(f) ==
    [act |-> "recover", fn |-> "", tx |-> 0, res |-> 0, allow |-> FALSE,
     err |-> OK, f |-> f, callee |-> f]

\* BeginExecute (lines 1154-1174) with beginWaitForSameRangeTransactions.
BeginExecuteNext(f, rv) ==
    CASE f.pc = "entry" ->
            IF enableHotRowProtection /\ f.res = 0
            THEN CallLeaf(f, "waitForSameRangeTransactions", 0, 0)
            ELSE CallLeaf(f, "Begin", 0, f.res)
      [] f.pc = "waitForSameRangeTransactions" ->
            IF rv.err # OK THEN Return(f, rv.err)
            ELSE CallLeaf([f EXCEPT !.txDone = rv.txDone], "Begin", 0, f.res)
      [] f.pc = "Begin" ->
            IF rv.err # OK THEN Return(f, rv.err)
            ELSE CallLeaf([f EXCEPT !.tx = rv.tx], "Execute", rv.tx, f.res)
      [] f.pc = "Execute" -> Return(f, rv.err)

\* An unwinding whose deferred Rollback was never registered.
UnwindWithoutRollback(f, registered, err) ==
    IF err = OK THEN Recover(f) ELSE End(f, err)

\* The deferred Rollback of ExecuteBatch and execDML, then the deferred
\* handlePanicAndSendLogStats and endRequest.  The error is nil when a panic
\* unwinds.
Unwind(f, registered, err) ==
    IF registered /\ f.tx # 0
    THEN CallLeaf([f EXCEPT !.err = err], "Rollback", f.tx, 0)
    ELSE IF err = OK THEN Recover(f) ELSE End(f, err)

\* ExecuteBatch (lines 1067-1151).  A nil result of Execute (its body
\* panicked) makes *localReply panic; the panic is recovered with err nil.
ExecuteBatchNext(f, rv) ==
    CASE f.pc = "entry" ->
            IF f.n = 0 THEN Return(f, INVALID_ARGUMENT)
            ELSE IF f.asTransaction /\ f.tx # 0 THEN Return(f, INVALID_ARGUMENT)
            ELSE IF enableHotRowProtection /\ f.asTransaction
            THEN CallLeaf(f, "waitForSameRangeTransactions", 0, 0)
            ELSE Start(f, f.tx # 0)
      [] f.pc = "waitForSameRangeTransactions" ->
            IF rv.err # OK THEN Return(f, rv.err)
            ELSE Start([f EXCEPT !.txDone = rv.txDone], f.tx # 0)
      [] f.pc = "startRequest" ->
            IF f.asTransaction THEN CallLeaf(f, "Begin", 0, 0)
            ELSE CallLeaf([f EXCEPT !.n = @ - 1], "Execute", f.tx, 0)
      [] f.pc = "Begin" ->
            IF rv.err # OK THEN End(f, rv.err)
            ELSE CallLeaf([f EXCEPT !.tx = rv.tx, !.n = @ - 1], "Execute", rv.tx, 0)
      [] f.pc = "Execute" ->
            IF rv.err # OK THEN Unwind(f, f.asTransaction, rv.err)
            ELSE IF ~rv.res THEN Unwind(f, f.asTransaction, OK)
            ELSE IF f.n > 0 THEN CallLeaf([f EXCEPT !.n = @ - 1], "Execute", f.tx, 0)
            ELSE IF f.asTransaction THEN CallLeaf(f, "Commit", f.tx, 0)
            ELSE End(f, OK)
      [] f.pc = "Commit" -> End([f EXCEPT !.tx = 0], rv.err)
      [] f.pc = "Rollback" -> IF f.err = OK THEN Recover(f) ELSE End(f, f.err)

\* BeginExecuteBatch (lines 1255-1265).
BeginExecuteBatchNext(f, rv) ==
    CASE f.pc = "entry" -> CallLeaf(f, "Begin", 0, 0)
      [] f.pc = "Begin" ->
            IF rv.err # OK THEN Return(f, rv.err)
            ELSE CallBatch(f, Frame("ExecuteBatch", rv.tx, 0, f.asTransaction, f.n))
      [] f.pc = "ExecuteBatch" -> Return(f, rv.err)

\* execDML (lines 1323-1356); gen is what queryGenerator does.  A nil
\* result of Execute (its body panicked) makes qr.RowsAffected panic, after
\* the Commit.
execDMLNext(f, rv, gen) ==
    CASE f.pc = "entry" -> Start(f, FALSE)
      [] f.pc = "startRequest" ->
            IF gen = "error" THEN End(f, INVALID_ARGUMENT)
            ELSE IF gen = "panic" THEN Recover(f)
            ELSE CallLeaf(f, "Begin", 0, 0)
      [] f.pc = "Begin" ->
            IF rv.err # OK THEN End(f, rv.err)
            ELSE CallLeaf([f EXCEPT !.tx = rv.tx], "Execute", rv.tx, 0)
      [] f.pc = "Execute" ->
            IF rv.err # OK THEN Unwind(f, TRUE, rv.err)
            ELSE CallLeaf([f EXCEPT !.qr = rv.res], "Commit", f.tx, 0)
      [] f.pc = "Commit" ->
            IF rv.err # OK THEN End([f EXCEPT !.tx = 0], rv.err)
            ELSE IF ~f.qr THEN Recover([f EXCEPT !.tx = 0])
            ELSE End([f EXCEPT !.tx = 0], OK)
      [] f.pc = "Rollback" -> IF f.err = OK THEN Recover(f) ELSE End(f, f.err)

\* ReserveBeginExecute (lines 1391-1418) and ReserveExecute (lines
\* 1421-1447): one request that reserves, then Execute on the connection.
ReserveNext(f, rv) ==
    CASE f.pc = "entry" ->
            CallLeaf(f, IF f.fn = "ReserveBeginExecute" THEN "ReserveBegin" ELSE "Reserve",
                     f.tx, 0)
      [] f.pc \in {"ReserveBegin", "Reserve"} ->
            IF rv.err # OK THEN Return(f, rv.err)
            ELSE CallLeaf(f, "Execute", rv.tx, rv.tx)
      [] f.pc = "Execute" -> Return(f, rv.err)

OperationNext(f, rv, gen) ==
    CASE f.fn = "BeginExecute" -> BeginExecuteNext(f, rv)
      [] f.fn = "ExecuteBatch" -> ExecuteBatchNext(f, rv)
      [] f.fn = "BeginExecuteBatch" -> BeginExecuteBatchNext(f, rv)
      [] f.fn = "execDML" -> execDMLNext(f, rv, gen)
      [] f.fn \in {"ReserveBeginExecute", "ReserveExecute"} -> ReserveNext(f, rv)

\* A txDone that is called at the end of the operation, not deferred: an
\* operation that returns an error does not call it.
txDoneCallsOnSuccess(d) == IF d.f.txDone /\ d.err = OK THEN 1 ELSE 0

\* The calls of the deferred txDone (lines 1087-1089, 1162-1164) when the
\* operation returns by the access d.
txDoneCalls(d) == IF d.f.txDone THEN 1 ELSE 0

\* The client me after the operation has returned by the access d and its
\* deferred calls have run.
Deferred(me, d) == [me EXCEPT !.released = @ + txDoneCalls(d)]

\* The client me after the body of the leaf fn has ended: the hot-row gate
\* has handed over a done callback; te.Begin has begun the transaction id;
\* te.Commit or te.Rollback has ended the transaction.
Ran(me, fn, outcome, id, txDone) ==
    [me EXCEPT !.panics = IF outcome = "panic" THEN @ + 1 ELSE @,
               !.got = IF fn = "waitForSameRangeTransactions" /\ outcome = "ok"
                          /\ txDone
                       THEN @ + 1 ELSE @,
               !.open = CASE fn \in {"Begin", "ReserveBegin"} /\ outcome = "ok" -> id
                          [] fn \in {"Commit", "Rollback"} -> 0
                          [] OTHER -> @]

\* The client me after its innermost call has returned rv.
Popped(me, rv, held) ==
    LET rest == SubSeq(me.stack, 1, Len(me.stack) - 1)
    IN IF rest = << >>
       THEN [IdleClient EXCEPT !.pc = "ret", !.op = me.op, !.tgt = me.tgt,
                               !.isLocal = me.isLocal, !.arg = me.arg,
                               !.err = rv.err, !.held = held,
                               !.panics = me.panics, !.counted = me.counted,
                               !.got = me.got, !.released = me.released,
                               !.open = me.open]
       ELSE [me EXCEPT !.stack = rest, !.rv = rv, !.held = held]

\* The frames of the client me with the innermost one replaced.
WithTop(me, f) == [me.stack EXCEPT ![Len(me.stack)] = f]

\* The frame of a leaf whose body runs.
Body(fn, tx, res) ==
    [Frame(fn, 0, 0, FALSE, 0) EXCEPT !.pc = "body", !.engine = engineCall(fn, tx, res)]

\* One access d of the innermost operation of client c, whose record is me.
Perform(c, me, d) ==
    /\ CASE d.act = "call" ->
              LET err == leafError(d.fn, d.tx, d.res, me.tgt, me.isLocal)
              IN IF err = OK
                 THEN /\ requests' = requests + 1
                      /\ cl' = [cl EXCEPT ![c] =
                                  [me EXCEPT !.stack = Append(WithTop(me, d.f),
                                                              Body(d.fn, d.tx, d.res)),
                                             !.rv = NoRv, !.held = @ + 1,
                                             !.counted = TRUE]]
                      /\ UNCHANGED draining
                 ELSE /\ cl' = [cl EXCEPT ![c] =
                                  [me EXCEPT !.stack = WithTop(me, d.f),
                                             !.rv = [NoRv EXCEPT !.err = err]]]
                      /\ UNCHANGED <<requests, draining>>
         [] d.act = "push" ->
              /\ cl' = [cl EXCEPT ![c] =
                          [me EXCEPT !.stack = Append(WithTop(me, d.f), d.callee),
                                     !.rv = NoRv]]
              /\ UNCHANGED <<requests, draining>>
         [] d.act = "start" ->
              LET err == startRequest(state, target, alsoAllow, me.tgt, me.isLocal,
                                      d.allow)
              IN IF err = OK
                 THEN /\ requests' = requests + 1
                      /\ cl' = [cl EXCEPT ![c] =
                                  [me EXCEPT !.stack = WithTop(me, d.f), !.rv = NoRv,
                                             !.held = @ + 1, !.counted = TRUE]]
                      /\ UNCHANGED draining
                 ELSE /\ cl' = [cl EXCEPT ![c] =
                                  Popped(Deferred(me, [d EXCEPT !.err = err]),
                                         [NoRv EXCEPT !.err = err], me.held)]
                      /\ UNCHANGED <<requests, draining>>
         [] d.act = "end" ->
              /\ endRequest(c)
              /\ cl' = [cl EXCEPT ![c] =
                          Popped(Deferred(me, d), [NoRv EXCEPT !.err = d.err],
                                 me.held - 1)]
         [] d.act = "recover" ->
              /\ endRequest(c)
              /\ cl' = [cl EXCEPT ![c] =
                          Popped([Deferred(me, d) EXCEPT !.panics = @ + 1], NoRv,
                                 me.held - 1)]
         [] d.act = "return" ->
              /\ cl' = [cl EXCEPT ![c] =
                          Popped(Deferred(me, d), [NoRv EXCEPT !.err = d.err],
                                 me.held)]
              /\ UNCHANGED <<requests, draining>>
    /\ UNCHANGED <<state, lameduck, target, alsoAllow, svc, configDB,
                   queryTimeout, aborted, proc, enableHotRowProtection>>

\* The record of a client that calls op with the arguments of the frame f.
Caller(op, f, tgt, isLocal) ==
    [IdleClient EXCEPT !.op = op, !.tgt = tgt, !.isLocal = isLocal,
                       !.arg = [tx |-> f.tx, res |-> f.res,
                                allow |-> allowOnShutdown(op, f.tx), n |-> f.n]]

\* A client calls an operation of the query service: the operation runs up
\* to its first access.
Call(c, op, f, tgt, isLocal) ==
    /\ UNCHANGED <<healthVars, conv>>
    /\ ~aborted
    /\ cl[c].pc = "idle"
    /\ IF op \in LeafOps
       THEN LET err == leafError(op, f.tx, f.res, tgt, isLocal)
            IN /\ IF err = OK
                  THEN /\ requests' = requests + 1
                       /\ cl' = [cl EXCEPT ![c] =
                                   [Caller(op, f, tgt, isLocal) EXCEPT
                                       !.pc = "run",
                                       !.stack = <<Body(op, f.tx, f.res)>>,
                                       !.held = cl[c].held + 1,
                                       !.counted = TRUE]]
                  ELSE /\ requests' = requests
                       /\ cl' = [cl EXCEPT ![c] =
                                   [Caller(op, f, tgt, isLocal) EXCEPT
                                       !.pc = "ret", !.err = err, !.held = cl[c].held]]
               /\ UNCHANGED <<state, lameduck, target, alsoAllow, svc, configDB,
                              queryTimeout, aborted, proc, draining,
                              enableHotRowProtection>>
       ELSE IF op \in VStreamOps
       THEN LET err == streamError(op, f.n, tgt, isLocal)
            IN /\ cl' = [cl EXCEPT ![c] =
                           IF err = OK
                           THEN [Caller(op, f, tgt, isLocal) EXCEPT
                                    !.pc = "run",
                                    !.stack = <<Body(op, f.tx, f.res)>>,
                                    !.held = cl[c].held]
                           ELSE [Caller(op, f, tgt, isLocal) EXCEPT
                                    !.pc = "ret", !.err = err, !.held = cl[c].held]]
               /\ UNCHANGED <<state, lameduck, target, alsoAllow, requests, svc,
                              configDB, queryTimeout, aborted, proc, draining,
                              enableHotRowProtection>>
       ELSE Perform(c, [Caller(op, f, tgt, isLocal) EXCEPT
                           !.pc = "run", !.stack = <<f>>, !.held = cl[c].held],
                    OperationNext(f, NoRv, "ok"))

\* The body a leaf handed to execRequest ends, and the deferred endRequest
\* runs; or the stream of a VStream operation ends, which holds no request
\* and has no handler of panics.
bodyReturns(c, outcome, id, txDone) ==
    /\ UNCHANGED <<healthVars, conv>>
    /\ ~aborted
    /\ cl[c].pc = "run"
    /\ LET top == cl[c].stack[Len(cl[c].stack)]
       IN /\ top.pc = "body"
          /\ IF top.fn \in VStreamOps
             THEN /\ outcome # "panic"
                  /\ cl' = [cl EXCEPT ![c] =
                              Popped(cl[c], bodyResult(top.fn, outcome, id, txDone),
                                     cl[c].held)]
                  /\ UNCHANGED <<requests, draining>>
             ELSE /\ endRequest(c)
                  /\ cl' = [cl EXCEPT ![c] =
                              Popped(Ran(cl[c], top.fn, outcome, id, txDone),
                                     bodyResult(top.fn, outcome, id, txDone),
                                     cl[c].held - 1)]
    /\ UNCHANGED <<state, lameduck, target, alsoAllow, svc, configDB,
                   queryTimeout, aborted, proc, enableHotRowProtection>>

\* The innermost frame of client c belongs to one of the operations fns
\* and is not inside a call.
Running(c, fns) ==
    /\ ~aborted
    /\ cl[c].pc = "run"
    /\ cl[c].stack[Len(cl[c].stack)].fn \in fns
    /\ cl[c].stack[Len(cl[c].stack)].pc # "body"

Top(c) == cl[c].stack[Len(cl[c].stack)]

BeginExecute(c) ==
    /\ UNCHANGED <<healthVars, conv>>
    /\ Running(c, {"BeginExecute"})
    /\ Perform(c, cl[c], BeginExecuteNext(Top(c), cl[c].rv))

ExecuteBatch(c) ==
    /\ UNCHANGED <<healthVars, conv>>
    /\ Running(c, {"ExecuteBatch"})
    /\ Perform(c, cl[c], ExecuteBatchNext(Top(c), cl[c].rv))

BeginExecuteBatch(c) ==
    /\ UNCHANGED <<healthVars, conv>>
    /\ Running(c, {"BeginExecuteBatch"})
    /\ Perform(c, cl[c], BeginExecuteBatchNext(Top(c), cl[c].rv))

execDML(c, gen) ==
    /\ UNCHANGED <<healthVars, conv>>
    /\ Running(c, {"execDML"})
    /\ Perform(c, cl[c], execDMLNext(Top(c), cl[c].rv, gen))

ReserveExecute(c) ==
    /\ UNCHANGED <<healthVars, conv>>
    /\ Running(c, {"ReserveBeginExecute", "ReserveExecute"})
    /\ Perform(c, cl[c], ReserveNext(Top(c), cl[c].rv))

(***************************************************************************)
(* The specifications: the node with its callers and its clients.          *)
(***************************************************************************)
\* The callers P of SetServingType and StopService, which ask for the
\* tablet types T and the alsoAllow lists A.
Transitions(P, T, A) ==
    \/ \E tt \in T : InitDBConfig(tt)
    \/ \E p \in P, tt \in T, serving \in BOOLEAN, also \in A :
          SetServingType(p, tt, serving, also)
    \/ \E p \in P : fullStart(p)
    \/ \E p \in P : serveNewType(p)
    \/ \E p \in P : gracefulStop(p)
    \/ \E p \in P \cup {Prober} : waitForShutdown(p)
    \/ \E p \in P : closeAll(p)
    \/ \E p \in P : SetServingTypeReturn(p)
    \/ \E p \in P \cup {Prober} : StopService(p)
    \/ TimeBomb

\* The goroutine of CheckMySQL.
Probe ==
    \/ CheckMySQL
    \/ \E r \in BOOLEAN : isMySQLReachable(r)
    \/ CheckMySQLRelease

\* The clients C that send requests through execRequest with the targets G
\* from the contexts L.
Requests(C, G, L) ==
    \/ \E c \in C, tgt \in G, isLocal \in L, allow \in BOOLEAN :
          execRequest(c, tgt, isLocal, allow)
    \/ \E c \in C, o \in Outcomes : execRequestEnd(c, o)
    \/ \E c \in C : ClientReturn(c)

\* The targets and contexts of the calls of the operations: every tablet
\* type in the keyspace and shard of the node, another keyspace, and no
\* target, from a remote and from a local context.
Contexts ==
    {[tgt |-> t, isLocal |-> FALSE] : t \in NodeTargets}
    \cup {[tgt |-> [Keyspace |-> "other", Shard |-> NodeShard, TabletType |-> MASTER],
           isLocal |-> FALSE]}
    \cup {[tgt |-> NilTarget, isLocal |-> l] : l \in BOOLEAN}

\* The clients C that call the operations of the query service.
Operations(C) ==
    \/ \E c \in C, op \in Ops, ctx \in Contexts :
          \E f \in Args(op) : Call(c, op, f, ctx.tgt, ctx.isLocal)
    \/ \E c \in C, o \in Outcomes, id \in 1 .. MaxId, txDone \in BOOLEAN :
          bodyReturns(c, o, id, txDone)
    \/ \E c \in C : BeginExecute(c)
    \/ \E c \in C : ExecuteBatch(c)
    \/ \E c \in C : BeginExecuteBatch(c)
    \/ \E c \in C, gen \in Outcomes : execDML(c, gen)
    \/ \E c \in C : ReserveExecute(c)
    \/ \E c \in C : ClientReturn(c)

(***************************************************************************)
(* StreamHealth and BroadcastHealth (lines 1750-1826).  A snapshot is      *)
(* named by the number of the broadcast that made it.  Each section of     *)
(* streamHealthMutex is one step, and so is each call of the callback.     *)
(***************************************************************************)
Subscribers == 1 .. NumSubscribers

\* The capacity of the channel of a subscriber (line 1790).
ChannelCap == 10

\* What the callback of StreamHealth returns.
CallbackResults == {OK, "EOF", BodyError}

\* The values of maxCache.
MaxCaches == {"zero", "positive"}

\* A send that blocks the broadcaster out of a full channel by replacing
\* the newest snapshot in it.
sendReplacing(c, shr) ==
    IF Len(c) < ChannelCap THEN Append(c, shr)
    ELSE [c EXCEPT ![Len(c)] = shr]

\* select { case c <- shr: default: } (lines 1819-1822).
send(c, shr) == IF Len(c) < ChannelCap THEN Append(c, shr) ELSE c

\* BroadcastHealth (lines 1802-1826).
BroadcastHealth(maxCache) ==
    /\ ~aborted
    /\ LET shr == [seq |-> broadcasts + 1, Target |-> target,
                   Serving |-> IsServing(IF lameduck # 0 THEN "NOT_SERVING"
                                         ELSE stateName[state + 1])]
       IN /\ streamHealthMap' = [id \in DOMAIN streamHealthMap |->
                                    send(streamHealthMap[id], shr)]
          /\ lastStreamHealthResponse' = shr
          /\ lastStreamHealthExpired' = (maxCache = "zero")
          /\ sh' = [s \in Subscribers |->
                      IF /\ sh[s].pc \in {"select", "callback", "unregister"}
                         /\ sh[s].id \in DOMAIN streamHealthMap
                         /\ Len(streamHealthMap[sh[s].id]) >= ChannelCap
                      THEN [sh[s] EXCEPT !.dropped = @ \cup {shr.seq}]
                      ELSE sh[s]]
    /\ broadcasts' = broadcasts + 1
    /\ UNCHANGED <<streamHealthIndex, state, lameduck, target, alsoAllow, requests,
                   svc, configDB, queryTimeout, aborted, proc, cl, draining,
                   enableHotRowProtection, conv>>

\* Time passes lastStreamHealthExpiration.
Expire ==
    /\ ~aborted
    /\ lastStreamHealthResponse # NilShr
    /\ ~lastStreamHealthExpired
    /\ lastStreamHealthExpired' = TRUE
    /\ UNCHANGED <<streamHealthIndex, streamHealthMap, lastStreamHealthResponse, sh,
                   broadcasts, state, lameduck, target, alsoAllow, requests, svc,
                   configDB, queryTimeout, aborted, proc, cl, draining,
                   enableHotRowProtection, conv>>

\* What StreamHealth does with the result of its callback: nil goes on, EOF
\* is a clean end, any other error is returned (lines 1757-1762, 1774-1779).
afterCallback(me, r, registered) ==
    LET given == [me EXCEPT !.got = Append(@, me.shr.seq)]
    IN IF r = OK THEN [given EXCEPT !.pc = IF registered THEN "select" ELSE "register"]
       ELSE [given EXCEPT !.pc = IF registered THEN "unregister" ELSE "done",
                          !.err = IF r = "EOF" THEN OK ELSE r]

\* StreamHealth (lines 1750-1782): the steps of subscriber s; r is what the
\* callback returns, done whether ctx.Done() is chosen by the select.
StreamHealth(s, r, done) ==
    /\ ~aborted
    /\ \/ /\ sh[s].pc = "idle"
          /\ sh' = [sh EXCEPT ![s] =
                      IF lastStreamHealthResponse # NilShr /\ ~lastStreamHealthExpired
                      THEN [@ EXCEPT !.pc = "cached", !.shr = lastStreamHealthResponse]
                      ELSE [@ EXCEPT !.pc = "register"]]
          /\ UNCHANGED <<streamHealthIndex, streamHealthMap>>
       \/ /\ sh[s].pc = "cached"
          /\ sh' = [sh EXCEPT ![s] =
                      [afterCallback(@, r, FALSE) EXCEPT !.cachedAt = broadcasts]]
          /\ UNCHANGED <<streamHealthIndex, streamHealthMap>>
       \/ /\ sh[s].pc = "register"
          /\ streamHealthIndex' = streamHealthIndex + 1
          /\ streamHealthMap' = (streamHealthIndex :> << >>) @@ streamHealthMap
          /\ sh' = [sh EXCEPT ![s] = [@ EXCEPT !.pc = "select",
                                               !.id = streamHealthIndex]]
       \/ /\ sh[s].pc = "select"
          /\ IF done
             THEN /\ sh' = [sh EXCEPT ![s] = [@ EXCEPT !.pc = "unregister"]]
                  /\ UNCHANGED streamHealthMap
             ELSE /\ streamHealthMap[sh[s].id] # << >>
                  /\ sh' = [sh EXCEPT ![s] =
                              [@ EXCEPT !.pc = "callback",
                                        !.shr = Head(streamHealthMap[sh[s].id])]]
                  /\ streamHealthMap' = [streamHealthMap EXCEPT
                                            ![sh[s].id] = Tail(@)]
          /\ UNCHANGED streamHealthIndex
       \/ /\ sh[s].pc = "callback"
          /\ sh' = [sh EXCEPT ![s] = afterCallback(@, r, TRUE)]
          /\ UNCHANGED <<streamHealthIndex, streamHealthMap>>
       \/ /\ sh[s].pc = "unregister"
          /\ streamHealthMap' = [id \in DOMAIN streamHealthMap \ {sh[s].id} |->
                                    streamHealthMap[id]]
          /\ sh' = [sh EXCEPT ![s] = [@ EXCEPT !.pc = "done"]]
          /\ UNCHANGED streamHealthIndex
    /\ UNCHANGED <<lastStreamHealthResponse, lastStreamHealthExpired, broadcasts,
                   state, lameduck, target, alsoAllow, requests, svc, configDB,
                   queryTimeout, aborted, proc, cl, draining, enableHotRowProtection,
                   conv>>

\* The health source that broadcasts at most B times, the clock, and the
\* subscribers S, which register before the broadcast after the first
\* startBy.
Health(S, B, startBy) ==
    \/ \E m \in MaxCaches : broadcasts < B /\ BroadcastHealth(m)
    \/ Expire
    \/ \E s \in S, r \in CallbackResults, done \in BOOLEAN :
          /\ sh[s].pc \in {"idle", "cached", "register"} => broadcasts <= startBy
          /\ StreamHealth(s, r, done)

\* Two subscribers that register early, and enough broadcasts to fill a
\* channel.
NextHealth == Health(Subscribers, MaxBroadcasts, MaxStartAt)

SpecHealth == Init /\ [][NextHealth]_vars

\* One subscriber that registers at any time.
NextStream == Health({1}, MaxStreamed, MaxStreamed)

SpecStream == Init /\ [][NextStream]_vars

(***************************************************************************)
(* convertAndLogError (lines 1568-1643).  A message is the set of the      *)
(* parts it is made of.                                                    *)
(***************************************************************************)
\* The codes convertErrorCode gives.
ErrCodes ==
    {FAILED_PRECONDITION, INVALID_ARGUMENT, UNKNOWN, RESOURCE_EXHAUSTED,
     "ABORTED", "ALREADY_EXISTS", "DEADLINE_EXCEEDED"}

\* No error.
NilErr == [kind |-> "nil", code |-> OK, text |-> {}]

\* The errors handed to convertAndLogError: nil, a *mysql.SQLError or any
\* other error; its code, and its text, which may repeat the bind values
\* of the query that failed.
Errs ==
    {NilErr}
    \cup {[kind |-> k, code |-> c, text |-> {"text"} \cup v] :
             k \in {"sql", "other"}, c \in ErrCodes, v \in {{}, {"bindValues"}}}

\* The calls of convertAndLogError: the TerseErrors of the node, the
\* number of bind variables, whether the context has a caller id and the
\* call a logStats, and the error.
ConvCalls ==
    [pc : {"call"}, TerseErrors : BOOLEAN, bindVariables : 0 .. 1, cid : BOOLEAN,
     logStats : BOOLEAN, err : Errs]

\* queryAsString (lines 2037-2053) and truncateSQLAndBindVars (lines
\* 1650-1671): the query, and the values of the bind variables given.
queryAsString(bindVariables) ==
    {"sql"} \cup (IF bindVariables # 0 THEN {"bindValues"} ELSE {})

\* The method that logs an error of the code: none, or the name of it.
logMethod(errCode) ==
    CASE errCode \in {FAILED_PRECONDITION, "ALREADY_EXISTS"} -> "none"
      [] errCode = RESOURCE_EXHAUSTED -> "logPoolFull.Errorf"
      [] errCode = "ABORTED" -> "log.Warningf"
      [] errCode \in {INVALID_ARGUMENT, "DEADLINE_EXCEEDED"} -> "log.Infof"
      [] OTHER -> "log.Errorf"

\* The condition under which the message is stripped.
terse(TerseErrors, bindVariables, errCode) ==
    TerseErrors /\ bindVariables # 0 /\ errCode # FAILED_PRECONDITION

\* The error convertAndLogError returns for an error that is not nil
\* (lines 1607-1632).
converted(TerseErrors, bindVariables, cid, err) ==
    LET callerID == IF cid THEN {"callerID"} ELSE {}
    IN IF err.kind = "sql"
       THEN IF terse(TerseErrors, bindVariables, err.code)
            THEN [code |-> err.code,
                  text |-> {"errno", "sqlstate"} \cup callerID \cup queryAsString(0)]
            ELSE [code |-> err.code,
                  text |-> err.text \cup {"errno", "sqlstate"} \cup callerID
                           \cup queryAsString(bindVariables)]
       ELSE [code |-> err.code, text |-> err.text \cup callerID]

\* The message convertAndLogError logs (lines 1607-1636), when a method
\* logs it.
logged(TerseErrors, bindVariables, cid, err) ==
    LET callerID == IF cid THEN {"callerID"} ELSE {}
    IN IF err.kind = "sql"
       THEN err.text \cup {"errno", "sqlstate"} \cup callerID
            \cup queryAsString(bindVariables)
       ELSE converted(TerseErrors, bindVariables, cid, err).text
            \cup (IF terse(TerseErrors, bindVariables, err.code)
                  THEN queryAsString(0) ELSE queryAsString(bindVariables))

\* convertAndLogError: the error returned, the message logged, the count
\* added to ErrorCounters and the error left in logStats.
convertAndLogError ==
    /\ conv.pc = "call"
    /\ conv' =
          IF conv.err = NilErr
          THEN [conv EXCEPT !.pc = "ret"] @@
               [out |-> NilErr, message |-> {}, counted |-> "", statsError |-> NilErr]
          ELSE LET out == [kind |-> "vterror"] @@
                          converted(conv.TerseErrors, conv.bindVariables, conv.cid,
                                    conv.err)
               IN [conv EXCEPT !.pc = "ret"] @@
                  [out |-> out,
                   message |-> IF logMethod(conv.err.code) # "none"
                               THEN logged(conv.TerseErrors, conv.bindVariables,
                                           conv.cid, conv.err)
                               ELSE {},
                   counted |-> conv.err.code,
                   statsError |-> IF conv.logStats THEN out ELSE NilErr]
    /\ UNCHANGED <<state, lameduck, target, alsoAllow, requests, svc, configDB,
                   queryTimeout, aborted, proc, cl, draining, enableHotRowProtection,
                   healthVars>>

\* The caller of convertAndLogError has the error and makes no other call.
convertAndLogErrorReturn ==
    /\ conv.pc = "ret"
    /\ conv' = [pc |-> "done", out |-> conv.out]
    /\ UNCHANGED <<state, lameduck, target, alsoAllow, requests, svc, configDB,
                   queryTimeout, aborted, proc, cl, draining, enableHotRowProtection,
                   healthVars>>

(***************************************************************************)
(* The two checks of a target: verifyTarget (lines 1516-1539) and          *)
(* startRequest in Serving (lines 1864-1898), called with the same target  *)
(* and context on the same node.                                           *)
(***************************************************************************)
\* The alsoAllow lists of the node.
AlsoAllowArgs ==
    AlsoAllowLists \cup {<<MASTER>>, <<REPLICA, BATCH>>, <<BATCH, REPLICA>>}

\* The calls: the target and alsoAllow of the node, the target of the call
\* (or none), and whether the context is local.
TargetCalls ==
    [pc : {"call"}, cur : Targets, also : AlsoAllowArgs, tgt : TargetArgs,
     isLocal : BOOLEAN, allowOnShutdown : BOOLEAN]

\* verifyTarget returns.
verifyTargetCall ==
    /\ conv.pc = "call"
    /\ conv' = [conv EXCEPT !.pc = "verified"] @@
               [verified |-> verifyTarget(conv.cur, conv.also, conv.tgt, conv.isLocal)]
    /\ UNCHANGED <<state, lameduck, target, alsoAllow, requests, svc, configDB,
                   queryTimeout, aborted, proc, cl, draining, enableHotRowProtection,
                   healthVars>>

\* startRequest returns, called while the node serves.
startRequestCall ==
    /\ conv.pc = "verified"
    /\ conv' = [conv EXCEPT !.pc = "started"] @@
               [started |-> startRequest(StateServing, conv.cur, conv.also, conv.tgt,
                                         conv.isLocal, conv.allowOnShutdown)]
    /\ UNCHANGED <<state, lameduck, target, alsoAllow, requests, svc, configDB,
                   queryTimeout, aborted, proc, cl, draining, enableHotRowProtection,
                   healthVars>>

InitTarget == NewTabletServer /\ enableHotRowProtection = FALSE /\ conv \in TargetCalls

NextTarget == verifyTargetCall \/ startRequestCall

SpecTarget == InitTarget /\ [][NextTarget]_vars

(***************************************************************************)
(* The drain of a stop under load: one caller of SetServingType and        *)
(* StopService, the probe, a client that sends batches in a transaction,   *)
(* message acks and commits, and a client that sends commits.              *)
(***************************************************************************)
\* The operations the first client calls, and the one the second calls.
DrainOps == {"ExecuteBatch", "MessageAck", "Commit"}

\* The arguments of the calls: a batch of one query in a transaction of its
\* own; the Commit of transaction 1.
DrainArgs(op) ==
    CASE op = "ExecuteBatch" -> Frame(op, 0, 0, TRUE, 1)
      [] op = "MessageAck" -> Frame("execDML", 0, 0, FALSE, 0)
      [] op = "Commit" -> Frame(op, 1, 0, FALSE, 0)

\* Client c calls one of the operations O with a target of the node.
CallsUnderLoad(c, O) ==
    \E op \in O : Call(c, op, DrainArgs(op), MasterTarget, FALSE)

\* The body of a request of client c returns.
BodyEnds(c) == bodyReturns(c, "ok", 1, FALSE)

\* The next step of the operation client c is in.
Continues(c) == ExecuteBatch(c) \/ execDML(c, "ok")

NextDrain ==
    \/ Transitions({1}, {MASTER}, {<<BATCH>>})
    \/ Probe
    \/ CallsUnderLoad(1, DrainOps)
    \/ CallsUnderLoad(2, {"Commit"})
    \/ \E c \in Clients : BodyEnds(c)
    \/ \E c \in Clients : Continues(c)
    \/ \E c \in Clients : ClientReturn(c)

\* requests.Wait() of the stop of p returns.
Drains(p) ==
    waitForShutdown(p) /\ proc[p].i = Len(waitForShutdownSteps) + 1

\* The next step of a stop that p has started or is about to run (never
\* the decision of a caller to call StopService).
StopGoesOn(p) ==
    /\ proc[p].fn # "idle"
    /\ gracefulStop(p) \/ StopService(p) \/ waitForShutdown(p)

\* The goroutines that run in NextDrain.
DrainProcs == {Prober, 1}

\* Every body of a request returns and every operation goes on to its next
\* step; a stop and the probe go on; a waiter of requests.Wait() is released
\* when the counter reaches zero (sync.WaitGroup), however short the time it
\* stays there.  Nothing makes the time bomb fire, and no client has to
\* call or to stop calling.
FairDrain ==
    /\ \A c \in Clients : WF_vars(BodyEnds(c)) /\ WF_vars(Continues(c))
    /\ \A p \in DrainProcs : WF_vars(StopGoesOn(p)) /\ SF_vars(Drains(p))
    /\ WF_vars(\E r \in BOOLEAN : isMySQLReachable(r))

SpecDrain == Init /\ [][NextDrain]_vars /\ FairDrain

InitErrors == NewTabletServer /\ enableHotRowProtection = FALSE /\ conv \in ConvCalls

NextErrors == convertAndLogError \/ convertAndLogErrorReturn

SpecErrors == InitErrors /\ [][NextErrors]_vars

\* Concurrent callers of SetServingType and StopService, which also allow
\* BATCH, the probe, and one client whose target names a MASTER.
Next ==
    Transitions(Callers, NodeTypes, {<<BATCH>>}) \/ Probe
    \/ Requests({1}, {MasterTarget}, {FALSE})

Spec == Init /\ [][Next]_vars

\* Concurrent callers and the probe on a node whose query timeout is zero
\* or positive.
InitTimeBomb ==
    /\ \E qt \in {"zero", "positive"} : NewTabletServerWith(qt)
    /\ enableHotRowProtection = FALSE
    /\ conv = NoConv

NextTimeBomb == Transitions(Callers, {MASTER}, {<<BATCH>>}) \/ Probe

SpecTimeBomb == InitTimeBomb /\ [][NextTimeBomb]_vars

\* One caller, the probe, and concurrent clients whose target names a
\* MASTER.
NextRequests ==
    Transitions({1}, NodeTypes, AlsoAllowLists) \/ Probe
    \/ Requests(Clients, {MasterTarget}, {FALSE})

SpecRequests == Init /\ [][NextRequests]_vars

\* Concurrent callers, the lameduck flag, and one client that asks
\* IsServing or sends a request.
NextLameduck ==
    Transitions(Callers, {MASTER}, {<<BATCH>>}) \/ EnterLameduck \/ ExitLameduck
    \/ GetState(1) \/ Requests({1}, {MasterTarget}, {FALSE})

SpecLameduck == Init /\ [][NextLameduck]_vars

\* One caller, and one client that sends every target from every context.
NextGate ==
    Transitions({1}, NodeTypes, AlsoAllowLists) \/ Requests({1}, TargetArgs, BOOLEAN)

SpecGate == Init /\ [][NextGate]_vars

\* One caller of a node that serves as MASTER and also allows BATCH, and one
\* client that calls every operation.
NextOperations == Transitions({1}, {MASTER}, {<<BATCH>>}) \/ Operations({1})

SpecOperations == InitOperations /\ [][NextOperations]_vars

(***************************************************************************)
(* The request gate (SpecGate) and the drain (SpecRequests).               *)
(***************************************************************************)
\* The state lets a request with this allowOnShutdown through to the check
\* of its target.
Admitting(allow) == state = StateServing \/ (allow /\ state = StateShuttingDown)

\* Client c makes the step of execRequest that calls startRequest.
Asks(c) == cl[c].pc = "idle" /\ cl'[c].op = "execRequest" /\ cl'[c].pc # "idle"

Accepted(c) == cl'[c].pc = "exec" /\ requests' = requests + 1
Refused(c, code) == cl'[c].pc = "ret" /\ cl'[c].err = code /\ requests' = requests

\* C1: startRequest succeeds only when the state is Serving, or when
\* allowOnShutdown is true and the state is ShuttingDown; in every other case
\* it fails with FAILED_PRECONDITION whatever the target is, and the drain
\* counter is unchanged.
C1_GateByState ==
    [][\A c \in Clients :
          Asks(c) =>
             /\ Accepted(c) => Admitting(cl'[c].arg.allow)
             /\ ~Admitting(cl'[c].arg.allow) => Refused(c, FAILED_PRECONDITION)]_vars

\* During a stop, a request with allowOnShutdown and a valid target has
\* been let in.
C1_Witness ==
    /\ state = StateShuttingDown
    /\ draining = {}
    /\ \E c \in Clients : cl[c].pc = "exec" /\ cl[c].arg.allow

\* The tablet type of a target is the type of the node or a member of
\* alsoAllow.
TypeAllowed(tgt) ==
    \/ tgt.TabletType = target.TabletType
    \/ \E k \in 1 .. Len(alsoAllow) : tgt.TabletType = alsoAllow[k]

\* C2 as stated: whatever the state, a target of another keyspace or shard
\* gets INVALID_ARGUMENT, a target whose tablet type is neither the type of
\* the node nor in alsoAllow gets FAILED_PRECONDITION, and a target that
\* matches is accepted.
C2_AsStated ==
    [][\A c \in Clients :
          (Asks(c) /\ cl'[c].tgt # NilTarget) =>
             LET tgt == cl'[c].tgt
             IN /\ (tgt.Keyspace # target.Keyspace \/ tgt.Shard # target.Shard) =>
                      Refused(c, INVALID_ARGUMENT)
                /\ ~TypeAllowed(tgt) => Refused(c, FAILED_PRECONDITION)
                /\ (tgt.Keyspace = target.Keyspace /\ tgt.Shard = target.Shard
                    /\ TypeAllowed(tgt)) => Accepted(c)]_vars

\* C2: when the state lets the request through, a target of another
\* keyspace or shard gets INVALID_ARGUMENT; a target of the keyspace and
\* shard of the node whose tablet type is neither the type of the node nor
\* in alsoAllow gets FAILED_PRECONDITION; a target that matches keyspace,
\* shard and type is accepted.
C2_TargetCheck ==
    [][\A c \in Clients :
          (Asks(c) /\ cl'[c].tgt # NilTarget /\ Admitting(cl'[c].arg.allow)) =>
             LET tgt == cl'[c].tgt
             IN /\ (tgt.Keyspace # target.Keyspace \/ tgt.Shard # target.Shard) =>
                      Refused(c, INVALID_ARGUMENT)
                /\ (tgt.Keyspace = target.Keyspace /\ tgt.Shard = target.Shard
                    /\ ~TypeAllowed(tgt)) => Refused(c, FAILED_PRECONDITION)
                /\ (tgt.Keyspace = target.Keyspace /\ tgt.Shard = target.Shard
                    /\ TypeAllowed(tgt)) => Accepted(c)]_vars

\* While the node serves, a request whose tablet type is only in alsoAllow
\* is inside its body.
C2_Witness ==
    /\ state = StateServing
    /\ \E c \in Clients :
          /\ cl[c].pc = "exec"
          /\ cl[c].tgt.TabletType # target.TabletType
          /\ \E k \in 1 .. Len(alsoAllow) : cl[c].tgt.TabletType = alsoAllow[k]

\* C3: once a graceful stop has begun with N requests in flight, the state
\* does not become NotServing until every one of them has called endRequest
\* (a fired time bomb ends the process in NotConnected).
C3_DrainSafety ==
    [][(state = StateShuttingDown /\ state' = StateNotServing) => draining = {}]_vars

\* A graceful stop waits in requests.Wait() for the two requests that were
\* in flight when it began.
C3_Witness ==
    /\ state = StateShuttingDown
    /\ \E p \in Callers :
          /\ proc[p].call = "SetServingType"
          /\ proc[p].fn = "waitForShutdown"
          /\ proc[p].i = Len(waitForShutdownSteps) + 1
    /\ Cardinality(draining) >= 2
    /\ draining \subseteq InFlight

(***************************************************************************)
(* The operations (SpecOperations).                                        *)
(***************************************************************************)
\* Client c calls an operation of the query service.
Calls(c) == cl[c].pc = "idle" /\ cl'[c].op \in Ops /\ cl'[c].pc # "idle"

\* The target of the call is valid for the node.
ValidTarget(tgt) ==
    /\ tgt # NilTarget
    /\ tgt.Keyspace = target.Keyspace
    /\ tgt.Shard = target.Shard
    /\ TypeAllowed(tgt)

Admitted(c) == cl'[c].pc = "run" /\ requests' = requests + 1

C4_AdmittedOps ==
    {"Commit", "Rollback", "Prepare", "CommitPrepared", "RollbackPrepared",
     "CreateTransaction", "StartCommit", "SetRollback", "ConcludeTransaction",
     "ReadTransaction", "Release"}

C4_RefusedOps ==
    {"Begin", "StreamExecute", "MessageStream", "MessageAck", "PostponeMessages",
     "PurgeMessages"}

\* C4 as stated: while the state is ShuttingDown, Commit, Rollback, the
\* two-phase commit operations and every Release with a valid target are
\* admitted, and Begin, StreamExecute, MessageStream and the message DML
\* operations fail with FAILED_PRECONDITION.
C4_AsStated ==
    [][\A c \in Clients :
          (Calls(c) /\ state = StateShuttingDown /\ ValidTarget(cl'[c].tgt)) =>
             /\ cl'[c].op \in C4_AdmittedOps => Admitted(c)
             /\ cl'[c].op \in C4_RefusedOps =>
                   (cl'[c].pc = "ret" /\ cl'[c].err = FAILED_PRECONDITION
                    /\ requests' = requests)]_vars

\* C4: while the state is ShuttingDown, Commit, Rollback, the two-phase
\* commit operations, and Release with a transaction id or a reserved id
\* that is not zero, are admitted when their target is valid; Begin,
\* StreamExecute, MessageStream and the message DML operations fail with
\* FAILED_PRECONDITION.
C4_DuringShutdown ==
    [][\A c \in Clients :
          (Calls(c) /\ state = StateShuttingDown /\ ValidTarget(cl'[c].tgt)) =>
             /\ (/\ cl'[c].op \in C4_AdmittedOps
                 /\ cl'[c].op = "Release" => (cl'[c].arg.tx # 0 \/ cl'[c].arg.res # 0))
                   => Admitted(c)
             /\ cl'[c].op \in C4_RefusedOps =>
                   (cl'[c].pc = "ret" /\ cl'[c].err = FAILED_PRECONDITION
                    /\ requests' = requests)]_vars

\* A Commit is inside its body during a stop that found no request in
\* flight when it began.
C4_Witness ==
    /\ state = StateShuttingDown
    /\ draining = {}
    /\ \E c \in Clients : cl[c].op = "Commit" /\ cl[c].pc = "run"

\* The requests the clients S have started and not ended.
RECURSIVE HeldBy(_)
HeldBy(S) ==
    IF S = {} THEN 0
    ELSE LET c == CHOOSE x \in S : TRUE IN cl[c].held + HeldBy(S \ {c})

\* The frame holds a request: a body that execRequest called runs, or
\* ExecuteBatch or execDML is past its own startRequest.
Holds(f) ==
    \/ f.pc = "body" /\ f.fn \notin VStreamOps
    \/ f.fn \in {"ExecuteBatch", "execDML"}
       /\ f.pc \notin {"entry", "waitForSameRangeTransactions"}

\* C5: the drain counter is the number of requests in progress: every
\* successful startRequest is matched by one endRequest, so a client whose
\* call has returned (with a gate failure, a success, an error or a panic of
\* a body, nested calls included) holds nothing.
C5_RequestPairing ==
    /\ \A c \in Clients :
          /\ cl[c].pc \in {"idle", "ret"} => cl[c].held = 0
          /\ cl[c].pc = "exec" => cl[c].held = 1
          /\ cl[c].pc = "run" =>
                cl[c].held = Cardinality({k \in 1 .. Len(cl[c].stack) :
                                             Holds(cl[c].stack[k])})
    /\ requests = HeldBy(Clients) + Cardinality(InFlight \cap {<<Prober, 1>>})

\* ExecuteBatch, after the body of its Execute panicked, runs its deferred
\* Rollback: the batch and the Rollback each hold a request.
C5_Witness ==
    \E c \in Clients :
       /\ cl[c].pc = "run"
       /\ Len(cl[c].stack) = 2
       /\ cl[c].stack[1].fn = "ExecuteBatch"
       /\ cl[c].stack[1].pc = "Rollback"
       /\ cl[c].stack[1].err = OK
       /\ cl[c].stack[2].pc = "body"
       /\ requests = 2

\* The ids do not match: both are set and they differ.
Mismatch(tx, res) == tx # 0 /\ res # 0 /\ tx # res

\* C6: an Execute whose transactionID and reservedID are both non-zero and
\* differ returns INTERNAL in every state and for every target, starts no
\* request and runs no body; so does the Execute that BeginExecute calls
\* with such ids.
C6_ExecuteIdMismatch ==
    [][\A c \in Clients :
          /\ (Calls(c) /\ cl'[c].op = "Execute"
              /\ Mismatch(cl'[c].arg.tx, cl'[c].arg.res)) =>
                /\ cl'[c].pc = "ret"
                /\ cl'[c].err = INTERNAL
                /\ cl'[c].stack = << >>
                /\ requests' = requests
          /\ (/\ cl[c].pc = "run" /\ cl'[c].pc = "run" /\ cl'[c] # cl[c]
              /\ Top(c).fn = "BeginExecute" /\ Top(c).pc = "Begin"
              /\ cl[c].rv.err = OK /\ Mismatch(cl[c].rv.tx, Top(c).res)) =>
                /\ cl'[c].rv.err = INTERNAL
                /\ Len(cl'[c].stack) = Len(cl[c].stack)
                /\ requests' = requests]_vars

\* An Execute with transactionID 1 and reservedID 2 has returned INTERNAL
\* while the node is not connected.
C6_Witness ==
    /\ state = StateNotConnected
    /\ \E c \in Clients :
          /\ cl[c].pc = "ret"
          /\ cl[c].op = "Execute"
          /\ Mismatch(cl[c].arg.tx, cl[c].arg.res)
          /\ cl[c].err = INTERNAL

(***************************************************************************)
(* The lifecycle (Spec).                                                   *)
(***************************************************************************)
\* Caller p calls SetServingType.
CallsSetServingType(p) ==
    proc[p].fn = "idle" /\ proc'[p].call = "SetServingType" /\ proc'[p].fn # "idle"

\* The action of caller p reaches its last transition without an error.
Completes(p) ==
    /\ proc[p].call = "SetServingType"
    /\ proc[p].err = OK
    /\ \/ proc[p].fn = "serveNewType" /\ proc'[p].fn = "return"
       \/ proc[p].fn = "gracefulStop" /\ proc[p].i = 1 /\ proc'[p].i = 2

\* The state SetServingType is asked for.
Desired(serving) ==
    IF serving THEN {StateServing} ELSE {StateNotConnected, StateNotServing}

\* C7 as stated: a SetServingType(desiredType, desiredServing) that starts
\* in a stable state and finds no error leaves target.tabletType equal to
\* desiredType, and the state Serving or a stable state that is not Serving,
\* as desiredServing asks.
C7_AsStated ==
    [][\A p \in Callers :
          /\ Completes(p) =>
                /\ target'.TabletType = proc[p].tabletType
                /\ state' \in Desired(proc[p].serving)
          /\ (CallsSetServingType(p) /\ proc'[p].fn = "return" /\ proc'[p].err = OK) =>
                \A tt \in NodeTypes, serving \in BOOLEAN :
                   SetServingType(p, tt, serving, alsoAllow') =>
                      /\ target'.TabletType = tt
                      /\ state' \in Desired(serving)]_vars

\* Caller p is inside a transition body, or the probe holds the state.
TransitionBody(p) ==
    \/ proc[p].fn \in {"fullStart", "serveNewType", "waitForShutdown", "closeAll"}
    \/ proc[p].fn = "gracefulStop" /\ proc[p].i <= 1
    \/ proc[p].fn = "StopService" /\ proc[p].i \in 1 .. Len(stopServiceSteps) + 1
    \/ p = Prober /\ proc[p].fn = "isMySQLReachable" /\ proc[p].role = "transition"

C9_OneTransition ==
    [][/\ \A p \in Callers :
             (CallsSetServingType(p)
              /\ state \in {StateTransitioning, StateShuttingDown}) =>
                /\ proc'[p].fn = "return"
                /\ proc'[p].err = FAILED_PRECONDITION
                /\ ~proc'[p].changed
                /\ state' = state
                /\ svc' = svc
       /\ \A p, q \in Procs : (TransitionBody(p) /\ TransitionBody(q)) => p = q]_vars

\* One caller is inside a transition body while another returns
\* FAILED_PRECONDITION.
C9_Witness ==
    \E p, q \in Callers :
       /\ TransitionBody(p)
       /\ proc[q].fn = "return"
       /\ proc[q].err = FAILED_PRECONDITION

\* C10: decideAction follows the transition table: NotConnected with serving
\* gives FullStart and NotServing with serving gives ServeNewType, both with
\* the state Transitioning; Serving without serving gives GracefulStop with
\* the state ShuttingDown; Serving with serving gives nothing when the
\* tablet type is the same and ServeNewType when it differs; NotConnected
\* and NotServing without serving give nothing and leave the state.
C10_TransitionTable ==
    [][\A p \in Callers :
          CallsSetServingType(p) =>
             \A tt \in NodeTypes, serving \in BOOLEAN :
                SetServingType(p, tt, serving, alsoAllow') =>
                   LET nothing == /\ proc'[p].fn = "return"
                                  /\ proc'[p].err = OK
                                  /\ state' = state
                       starts(fn, st) == proc'[p].fn = fn /\ state' = st
                   IN /\ (state = StateNotConnected /\ serving) =>
                            starts("fullStart", StateTransitioning)
                      /\ (state = StateNotServing /\ serving) =>
                            starts("serveNewType", StateTransitioning)
                      /\ (state = StateServing /\ ~serving) =>
                            starts("gracefulStop", StateShuttingDown)
                      /\ (state = StateServing /\ serving /\ target.TabletType = tt) =>
                            nothing
                      /\ (state = StateServing /\ serving /\ target.TabletType # tt) =>
                            starts("serveNewType", StateTransitioning)
                      /\ (state \in {StateNotConnected, StateNotServing} /\ ~serving) =>
                            nothing]_vars

\* A serving node is asked to serve another tablet type: serveNewType
\* begins while the transaction engine still accepts.
C10_Witness ==
    /\ state = StateTransitioning
    /\ \E p \in Callers :
          /\ proc[p].fn = "serveNewType"
          /\ proc[p].i = 0
          /\ svc.te \in {"rw", "ro"}

\* C11: a step of fullStart or of the serveNewType it delegates to that
\* fails makes SetServingType run closeAll, and when closeAll ends the state
\* is NotConnected, every sub-component is closed, and SetServingType
\* returns the error.
C11_FailedStartClosesAll ==
    [][\A p \in Callers :
          /\ (/\ proc[p].fn \in {"fullStart", "serveNewType"}
              /\ proc[p].err = OK
              /\ proc'[p].err = SubsystemError) =>
                /\ proc'[p].fn = "closeAll"
                /\ proc'[p].i = 1
                /\ state' = StateTransitioning
          /\ (proc[p].fn = "closeAll" /\ proc'[p].fn = "return") =>
                /\ state' = StateNotConnected
                /\ svc' = AllClosed
                /\ proc'[p].err = SubsystemError
                /\ proc'[p].changed]_vars

\* A start has failed: SetServingType returns (true, err), the state is
\* NotConnected and every sub-component is closed.
C11_Witness ==
    /\ state = StateNotConnected
    /\ svc = AllClosed
    /\ \E p \in Callers :
          /\ proc[p].fn = "return"
          /\ proc[p].err = SubsystemError
          /\ proc[p].changed

\* The sub-components fullStart opens are open.
StartedOpen(s) ==
    /\ s.se
    /\ s.vstreamer
    /\ s.qe
    /\ s.txThrottler
    /\ s.te \in {"init", "rw", "ro"}

\* C12 as stated: whenever the state is Serving, the schema engine, the
\* vstreamer, the query engine, the transaction throttler and the
\* transaction engine are open.
C12_AsStated == state = StateServing => StartedOpen(svc)

\* C13: whenever the state is NotConnected, the ten sub-components are
\* closed.
C13_NotConnectedClosed == state = StateNotConnected => svc = AllClosed

\* A StopService has closed a node that served, and is about to return.
C13_Witness ==
    /\ state = StateNotConnected
    /\ svc = AllClosed
    /\ \E p \in Callers :
          /\ proc[p].fn = "StopService"
          /\ proc[p].i = Len(stopServiceSteps) + 2

(***************************************************************************)
(* The lameduck flag (SpecLameduck).                                       *)
(***************************************************************************)
\* IsServing hands its result to client c.
AnswersIsServing(c) ==
    /\ cl[c].pc \in {"idle", "GetState"}
    /\ cl'[c].op = "IsServing"
    /\ cl'[c].pc = "ret"

\* C14: IsServing returns true if and only if it read a clear lameduck flag
\* and then the state Serving: it returns false when the flag is set, and
\* in NotConnected, NotServing, Transitioning and ShuttingDown.
C14_IsServing ==
    [][\A c \in Clients :
          AnswersIsServing(c) =>
             /\ cl[c].pc = "idle" => (lameduck # 0 /\ ~IsServing(cl'[c].name))
             /\ cl[c].pc = "GetState" =>
                   (IsServing(cl'[c].name) <=> state = StateServing)]_vars

\* IsServing has answered false on a node that serves, because the
\* lameduck flag was set.
C14_Witness ==
    /\ state = StateServing
    /\ lameduck = 1
    /\ \E c \in Clients :
          /\ cl[c].pc = "ret"
          /\ cl[c].op = "IsServing"
          /\ ~IsServing(cl[c].name)

\* C15: a SetServingType call that returns, whatever it did, leaves the
\* lameduck flag clear; a step that changes only the flag (EnterLameduck,
\* ExitLameduck) leaves the state and what startRequest answers; and a
\* request is admitted by the state and the target alone, whatever the flag.
C15_Lameduck ==
    [][/\ \A p \in Callers :
             (proc[p].call = "SetServingType" /\ proc'[p].fn = "idle") =>
                lameduck' = 0
       /\ (lameduck' # lameduck /\ proc' = proc) =>
             /\ state' = state
             /\ \A tgt \in TargetArgs, isLocal \in BOOLEAN, allow \in BOOLEAN :
                   startRequest(state', target', alsoAllow', tgt, isLocal, allow)
                      = startRequest(state, target, alsoAllow, tgt, isLocal, allow)
       /\ \A c \in Clients :
             (Asks(c) /\ Admitting(cl'[c].arg.allow)
              /\ checkTarget(cl'[c].tgt, cl'[c].isLocal, target, alsoAllow) = OK) =>
                Accepted(c)]_vars

\* A request is inside its body, admitted while the lameduck flag was set,
\* and a SetServingType that was rejected is about to return.
C15_Witness ==
    /\ lameduck = 1
    /\ \E c \in Clients : cl[c].pc = "exec"
    /\ \E p \in Callers :
          /\ proc[p].fn = "return"
          /\ proc[p].err = FAILED_PRECONDITION

(***************************************************************************)
(* Panics, the requests that were counted, and the bodies (SpecOperations). *)
(***************************************************************************)
\* C16 as stated: when the body of an operation has panicked, the panic was
\* caught, InternalErrors "Panic" was added to exactly once, and the
\* operation returns an error with the code UNKNOWN to its caller.
C16_AsStated ==
    \A c \in Clients :
       (cl[c].pc = "ret" /\ cl[c].panics > 0) =>
          (cl[c].panics = 1 /\ cl[c].err = UNKNOWN)

\* C17 as stated: a call that has returned with success, or with an error
\* other than FAILED_PRECONDITION, has added to the drain counter.
C17_AsStated ==
    \A c \in Clients :
       (cl[c].pc = "ret" /\ cl[c].op \in Ops /\ cl[c].err # FAILED_PRECONDITION) =>
          cl[c].counted

\* Client c calls Execute while the state is ShuttingDown, with a target
\* that is valid for the node.
ExecuteDuringShutdown(c) ==
    /\ Calls(c)
    /\ cl'[c].op = "Execute"
    /\ state = StateShuttingDown
    /\ ValidTarget(cl'[c].tgt)

\* The body of the Execute of client c hands the QueryExecutor the
\* transaction id when it is not zero, and the reserved id otherwise.
ExecutorGets(c) ==
    LET f == cl'[c].stack[1]
    IN /\ f.pc = "body"
       /\ f.engine.call = "qre.Execute"
       /\ f.engine.id = IF cl'[c].arg.tx # 0 THEN cl'[c].arg.tx ELSE cl'[c].arg.res

\* C18 as stated: while the state is ShuttingDown an Execute with a valid
\* target is admitted if and only if its transactionID is not zero, it
\* fails with FAILED_PRECONDITION when transactionID is zero, and the
\* executor is handed transactionID when it is not zero and reservedID
\* otherwise.
C18_AsStated ==
    [][\A c \in Clients :
          ExecuteDuringShutdown(c) =>
             /\ Admitted(c) <=> cl'[c].arg.tx # 0
             /\ cl'[c].arg.tx = 0 => Refused(c, FAILED_PRECONDITION)
             /\ Admitted(c) => ExecutorGets(c)]_vars

\* C18: while the state is ShuttingDown an Execute with a valid target,
\* whose two ids are not both set and different, is admitted if and only if
\* its transactionID is not zero, and fails with FAILED_PRECONDITION when
\* transactionID is zero, whatever its reservedID; the executor is handed
\* transactionID when it is not zero and reservedID otherwise, in every
\* state that admits the Execute.
C18_ExecuteDuringShutdown ==
    [][\A c \in Clients :
          /\ (/\ ExecuteDuringShutdown(c)
              /\ ~Mismatch(cl'[c].arg.tx, cl'[c].arg.res)) =>
                /\ Admitted(c) <=> cl'[c].arg.tx # 0
                /\ cl'[c].arg.tx = 0 => Refused(c, FAILED_PRECONDITION)
          /\ (Calls(c) /\ cl'[c].op = "Execute" /\ Admitted(c)) =>
                ExecutorGets(c)]_vars

\* During a stop, an Execute with transactionID 1 and reservedID 1 runs
\* its body, and the executor was handed the connection 1.
C18_Witness ==
    /\ state = StateShuttingDown
    /\ \E c \in Clients :
          /\ cl[c].op = "Execute"
          /\ cl[c].pc = "run"
          /\ cl[c].arg.tx # 0
          /\ cl[c].stack[1].pc = "body"
          /\ cl[c].stack[1].engine = [call |-> "qre.Execute", id |-> cl[c].arg.tx]

\* Client c makes a step of an ExecuteBatch that was called with
\* asTransaction.
BatchStep(c) ==
    /\ cl[c].pc = "run"
    /\ cl'[c] # cl[c]
    /\ cl'[c].pc # "idle"
    /\ Top(c).fn = "ExecuteBatch"
    /\ Top(c).asTransaction

\* The step of the batch of client c calls fn with the transaction id: the
\* gate of fn refuses the call, or the body of fn runs and calls the engine
\* with id.
BatchCalls(c, fn, call, id) ==
    LET k == Len(cl[c].stack)
    IN /\ cl'[c].pc = "run"
       /\ Len(cl'[c].stack) >= k
       /\ cl'[c].stack[k].fn = "ExecuteBatch"
       /\ cl'[c].stack[k].pc = fn
       /\ cl'[c].stack[k].tx = id
       /\ \/ Len(cl'[c].stack) = k /\ cl'[c].rv.err # OK
          \/ /\ Len(cl'[c].stack) = k + 1
             /\ cl'[c].stack[k + 1].fn = fn
             /\ cl'[c].stack[k + 1].engine.call = call
             /\ cl'[c].stack[k + 1].engine.id = id

\* The step of the batch of client c returns err, after its endRequest.
BatchReturns(c, err) ==
    /\ Len(cl'[c].stack) = Len(cl[c].stack) - 1
    /\ IF cl'[c].pc = "ret" THEN cl'[c].err = err ELSE cl'[c].rv.err = err
    /\ requests' = requests - 1

C20_Release ==
    [][\A c \in Clients :
          (Calls(c) /\ cl'[c].op = "Release") =>
             IF cl'[c].arg.tx = 0 /\ cl'[c].arg.res = 0
             THEN /\ Refused(c, INVALID_ARGUMENT)
                  /\ cl'[c].stack = << >>
             ELSE (/\ state \in {StateServing, StateShuttingDown}
                   /\ ValidTarget(cl'[c].tgt)) =>
                     /\ Admitted(c)
                     /\ cl'[c].stack[1].pc = "body"
                     /\ cl'[c].stack[1].engine =
                           IF cl'[c].arg.res # 0
                           THEN [call |-> "te.Release", id |-> cl'[c].arg.res]
                           ELSE [call |-> "te.Rollback", id |-> cl'[c].arg.tx]]_vars

\* During a stop, the body of a Release with a transaction id and another
\* reserved id runs, and releases the reserved connection.
C20_Witness ==
    /\ state = StateShuttingDown
    /\ \E c \in Clients :
          /\ cl[c].op = "Release"
          /\ cl[c].pc = "run"
          /\ cl[c].arg.tx # 0
          /\ cl[c].arg.res # 0
          /\ cl[c].arg.res # cl[c].arg.tx
          /\ cl[c].stack[1].engine = [call |-> "te.Release", id |-> cl[c].arg.res]

(***************************************************************************)
(* The streams that bypass startRequest (SpecOperations)                   *)
(***************************************************************************)
\* Client c calls VStream, VStreamRows or VStreamResults with a target
\* that passes verifyTarget.
CallsStream(c) ==
    /\ Calls(c)
    /\ cl'[c].op \in VStreamOps
    /\ verifyTarget(target, alsoAllow, cl'[c].tgt, cl'[c].isLocal) = OK

\* The stream of client c was accepted and the drain counter is as it was.
Streams(c) ==
    /\ cl'[c].pc = "run"
    /\ cl'[c].stack[1].pc = "body"
    /\ cl'[c].stack[1].fn = cl'[c].op
    /\ requests' = requests

\* The stream of client c ends.
StreamEnds(c) ==
    /\ cl[c].pc = "run"
    /\ cl[c].op \in VStreamOps
    /\ cl'[c].pc = "ret"

\* C21 as stated: in every state, VStream, VStreamRows and VStreamResults
\* are accepted when their target passes verifyTarget, and they never
\* change the drain counter.
C21_AsStated ==
    [][\A c \in Clients :
          /\ CallsStream(c) => Streams(c)
          /\ StreamEnds(c) => requests' = requests]_vars

\* C21: in every state, VStream and VStreamResults are accepted when their
\* target passes verifyTarget, and so is VStreamRows when its lastpk is
\* absent or has one row (with any other lastpk it returns
\* INVALID_ARGUMENT); a call of the three that is not accepted returns the
\* error of verifyTarget or INVALID_ARGUMENT, whatever the state; neither
\* the call nor the end of the stream changes the drain counter, and a
\* running stream holds no request.
C21_StreamsBypassGate ==
    [][\A c \in Clients :
          /\ CallsStream(c) =>
                IF cl'[c].op = "VStreamRows" /\ cl'[c].arg.n # 1
                THEN Refused(c, INVALID_ARGUMENT)
                ELSE Streams(c)
          /\ (Calls(c) /\ cl'[c].op \in VStreamOps) =>
                /\ requests' = requests
                /\ cl'[c].held = 0
                /\ cl'[c].pc = "ret" =>
                      cl'[c].err \in {verifyTarget(target, alsoAllow, cl'[c].tgt,
                                                   cl'[c].isLocal),
                                      INVALID_ARGUMENT}
          /\ StreamEnds(c) => requests' = requests]_vars

\* A stop has run to NotConnected, through ShuttingDown, while the stream
\* of a VStream that was accepted keeps running.
C21_Witness ==
    /\ state = StateNotConnected
    /\ \E p \in Callers : proc[p].call = "StopService"
                          /\ proc[p].i = Len(stopServiceSteps) + 2
    /\ \E c \in Clients :
          /\ cl[c].op \in VStreamOps
          /\ cl[c].pc = "run"
          /\ cl[c].stack[1].pc = "body"
          /\ cl[c].held = 0

(***************************************************************************)
(* The health broadcaster (SpecHealth, SpecStream)                         *)
(***************************************************************************)
\* A call of BroadcastHealth is made in this step.
Broadcasts == broadcasts' = broadcasts + 1

\* C22: BroadcastHealth never blocks: it can run whatever the channels
\* hold; a channel that already holds 10 snapshots is left as it is, every
\* other registered channel gets the new snapshot at its end, no channel is
\* added or removed, and the new snapshot is the cached last snapshot.
C22_BroadcastNeverBlocks ==
    /\ [](~aborted => ENABLED <<\E m \in MaxCaches : BroadcastHealth(m)>>_vars)
    /\ [][Broadcasts =>
             /\ lastStreamHealthResponse'.seq = broadcasts'
             /\ DOMAIN streamHealthMap' = DOMAIN streamHealthMap
             /\ \A id \in DOMAIN streamHealthMap :
                   streamHealthMap'[id] =
                      IF Len(streamHealthMap[id]) = ChannelCap
                      THEN streamHealthMap[id]
                      ELSE Append(streamHealthMap[id], lastStreamHealthResponse')]_vars

\* A broadcast found the channel of one subscriber full and dropped its
\* snapshot for it; the channel of the other subscriber holds that
\* snapshot, and it is the cached one.
C22_Witness ==
    \E s, t \in Subscribers :
       /\ s # t
       /\ broadcasts \in sh[s].dropped
       /\ sh[t].pc = "select"
       /\ streamHealthMap[sh[t].id] # << >>
       /\ streamHealthMap[sh[t].id][Len(streamHealthMap[sh[t].id])].seq = broadcasts
       /\ lastStreamHealthResponse.seq = broadcasts
       /\ Len(streamHealthMap[sh[s].id]) = ChannelCap

\* The numbers of the snapshots in a sequence of snapshots.
Seqs(c) == {c[k].seq : k \in 1 .. Len(c)}

\* The snapshots subscriber s has been given, holds, or has in its channel.
Reached(s) ==
    {sh[s].got[k] : k \in 1 .. Len(sh[s].got)}
    \cup (IF sh[s].pc = "callback" THEN {sh[s].shr.seq} ELSE {})
    \cup Seqs(streamHealthMap[sh[s].id])

\* C23 as stated: a subscriber that was given the cached snapshot and
\* streams is given its snapshots in the order of their broadcast, and
\* every broadcast made after it was given the cached snapshot, and not
\* dropped by its full channel, has reached it or waits in its channel.
C23_AsStated ==
    \A s \in Subscribers :
       (sh[s].pc \in {"select", "callback"} /\ sh[s].cachedAt > 0) =>
          /\ \A j, k \in 1 .. Len(sh[s].got) : j < k => sh[s].got[j] < sh[s].got[k]
          /\ \A b \in (sh[s].cachedAt + 1) .. broadcasts :
                b \in Reached(s) \cup sh[s].dropped

(***************************************************************************)
(* StopService and the probe (Spec)                                        *)
(***************************************************************************)
\* p is inside a StopService, called directly or by CheckMySQL.
Stops(p) == proc[p].call \in {"StopService", "CheckMySQL"}
            /\ proc[p].fn \in {"StopService", "waitForShutdown"}

\* p enters StopService in this step: the section under the lock.
EntersStopService(p) ==
    /\ proc'[p] # proc[p]
    /\ proc[p].i = 0
    /\ proc[p].fn \in {"idle", "StopService"}
    /\ proc'[p].call \in {"StopService", "CheckMySQL"}
    /\ proc'[p].fn \in {"StopService", "waitForShutdown"}

\* C24: a StopService that finds the state Serving or NotServing sets it to
\* ShuttingDown and closes nothing in that step; its requests.Wait()
\* returns only when the drain counter is zero; while it closes the
\* subsystems the state stays ShuttingDown; its last statement sets the
\* state to NotConnected, with every subsystem closed.  A StopService that
\* finds NotConnected, Transitioning or ShuttingDown changes neither the
\* state nor a subsystem, in that step and when it returns.
C24_StopService ==
    [][\A p \in Procs :
          /\ (EntersStopService(p) /\ state \in {StateServing, StateNotServing}) =>
                /\ state' = StateShuttingDown
                /\ svc' = svc
                /\ proc'[p].fn = "waitForShutdown"
          /\ (EntersStopService(p) /\ state \notin {StateServing, StateNotServing}) =>
                /\ state' = state
                /\ svc' = svc
                /\ proc'[p].i = Len(stopServiceSteps) + 3
          /\ (Stops(p) /\ proc[p].fn = "waitForShutdown"
              /\ proc'[p].fn = "StopService") =>
                (requests = 0 /\ state = StateShuttingDown)
          /\ (Stops(p) /\ proc[p].fn = "StopService"
              /\ proc[p].i \in 1 .. Len(stopServiceSteps) + 1
              /\ proc'[p] # proc[p] /\ ~aborted') =>
                /\ state = StateShuttingDown
                /\ proc'[p].i = Len(stopServiceSteps) + 2 =>
                      (state' = StateNotConnected /\ svc' = AllClosed)
          /\ (Stops(p) /\ proc[p].i = Len(stopServiceSteps) + 3
              /\ proc'[p] # proc[p] /\ ~aborted') =>
                (state' = state /\ svc' = svc)]_vars

\* One StopService has shut the node down to NotConnected, and another,
\* called during the shutdown, is about to return without having changed
\* anything.
C24_Witness ==
    /\ state = StateNotConnected
    /\ svc = AllClosed
    /\ \E p, q \in Callers :
          /\ proc[p].call = "StopService"
          /\ proc[p].i = Len(stopServiceSteps) + 2
          /\ proc[q].call = "StopService"
          /\ proc[q].i = Len(stopServiceSteps) + 3

\* C25 as stated: the StopService that CheckMySQL calls after a probe
\* reported the storage engine unreachable shuts the query service down:
\* it does not return without having set the state to NotConnected.
C25_AsStated ==
    [][(EntersStopService(Prober) /\ proc[Prober].fn = "StopService") =>
          proc'[Prober].fn = "waitForShutdown"]_vars

(***************************************************************************)
(* The errors returned (SpecErrors)                                        *)
(***************************************************************************)
\* C26 as stated: when TerseErrors is on and the call had bind variables,
\* the message of the error returned holds no bind value unless the code
\* is FAILED_PRECONDITION, whatever kind of error was converted.
C26_AsStated ==
    (/\ conv.pc = "ret"
     /\ conv.TerseErrors
     /\ conv.bindVariables # 0
     /\ conv.err # NilErr
     /\ conv.out.code # FAILED_PRECONDITION) =>
       "bindValues" \notin conv.out.text

(***************************************************************************)
(* What SetServingType returns and the path of a start (Spec)              *)
(***************************************************************************)
\* C27 as stated: a SetServingType that changed the state or the tablet
\* type of the target returns stateChanged true: the call that returns
\* without running an action has changed neither, and the call that ran
\* an action returns true.
C27_AsStated ==
    [][\A p \in Callers :
          /\ (CallsSetServingType(p) /\ proc'[p].fn = "return"
              /\ (state' # state \/ target'.TabletType # target.TabletType)) =>
                proc'[p].changed
          /\ (proc[p].call = "SetServingType" /\ proc[p].fn \notin {"idle", "return"}
              /\ proc'[p].fn = "return") =>
                proc'[p].changed]_vars

\* The sub-components after the first n calls of steps, from s.
RECURSIVE ApplyAll(_, _, _)
ApplyAll(s, steps, n) ==
    IF n = 0 THEN s ELSE Apply(ApplyAll(s, steps, n - 1), steps[n])

\* The calls of a start from NotConnected in their order, and the
\* sub-components after each: the schema engine, the vstreamer, the query
\* engine, the transaction throttler, the Init of the transaction engine.
ColdStartOrder ==
    <<"NewDBConnection", "se.Open", "vstreamer.Open", "qe.Open",
      "txThrottler.Open", "te.Init">>

\* Caller p runs the start that its SetServingType began in NotConnected.
ColdStarts(p) ==
    /\ proc[p].action = actionFullStart
    /\ proc[p].fn \in {"fullStart", "serveNewType"}

\* C28: the state leaves NotConnected only for Transitioning, by a
\* SetServingType that runs fullStart; while that start runs the state stays
\* Transitioning, and its only change is to Serving, made by the last
\* statement of serveNewType; fullStart opens the schema engine, the
\* vstreamer, the query engine and the transaction throttler and inits the
\* transaction engine in this order, starting with everything closed, and
\* serveNewType then runs the statements of its branch in their order.
C28_ColdStart ==
    /\ [](\A p \in Callers :
            (ColdStarts(p) /\ ~aborted) =>
               /\ state = StateTransitioning
               /\ proc[p].fn = "fullStart" =>
                     svc = ApplyAll(AllClosed, ColdStartOrder, proc[p].i - 1)
               /\ (proc[p].fn = "serveNewType" /\ proc[p].i >= 1) =>
                     svc = ApplyAll(ApplyAll(AllClosed, ColdStartOrder,
                                             Len(ColdStartOrder)),
                                    serveSteps(proc[p].role), proc[p].i - 1))
    /\ [][/\ (state = StateNotConnected /\ state' # state) =>
                /\ state' = StateTransitioning
                /\ \E p \in Callers : /\ CallsSetServingType(p)
                                      /\ proc'[p].action = actionFullStart
                                      /\ proc'[p].fn = "fullStart"
                                      /\ proc'[p].i = 1
          /\ \A p \in Callers :
                (ColdStarts(p) /\ state' # state /\ ~aborted') =>
                   /\ state' = StateServing
                   /\ proc[p].fn = "serveNewType"
                   /\ proc[p].i = Len(serveSteps(proc[p].role)) + 1
                   /\ proc'[p].fn = "return"]_vars

\* A start from NotConnected has run every statement of fullStart and of
\* the branch of serveNewType for a tablet type other than MASTER, and is
\* about to set the state to Serving.
C28_Witness ==
    /\ state = StateTransitioning
    /\ \E p \in Callers :
          /\ ColdStarts(p)
          /\ proc[p].fn = "serveNewType"
          /\ proc[p].role # MASTER
          /\ proc[p].i = Len(serveNonMasterSteps) + 1
          /\ svc.watcher

(***************************************************************************)
(* After serveNewType (SpecGate).                                          *)
(***************************************************************************)
\* Caller p makes the last step of serveNewType, which sets the state to
\* Serving and returns nil.
ServeNewTypeSucceeds(p) ==
    /\ proc[p].fn = "serveNewType"
    /\ proc[p].i = Len(serveSteps(proc[p].role)) + 1
    /\ proc'[p].fn = "return"
    /\ state' = StateServing

\* The sub-components of the branch of serveNewType for a tablet type.
RoleOpen(s, role) ==
    IF role = MASTER
    THEN /\ ~s.watcher /\ ~s.hr
         /\ s.hw /\ s.tracker /\ s.messager
         /\ s.te = "rw"
    ELSE /\ ~s.messager /\ ~s.tracker /\ ~s.hw
         /\ s.te = "ro"
         /\ s.hr /\ s.watcher

\* The tablet type of a target of the keyspace and shard of the node is a
\* member of alsoAllow.
AlsoAllowed(tgt) ==
    /\ tgt # NilTarget
    /\ tgt.Keyspace = target.Keyspace /\ tgt.Shard = target.Shard
    /\ \E k \in 1 .. Len(alsoAllow) : tgt.TabletType = alsoAllow[k]

\* C29: when serveNewType succeeds, after the branch for MASTER the
\* replication watcher and the heartbeat reader are closed, the heartbeat
\* writer, the schema tracker and the message engine are open and the
\* transaction engine accepts read-write; after the branch for any other
\* type the message engine, the schema tracker and the heartbeat writer are
\* closed, the transaction engine is read-only and the heartbeat reader and
\* the replication watcher are open; and once the node serves, a request
\* whose target names a tablet type of alsoAllow is admitted.
C29_AfterServeNewType ==
    [][/\ \A p \in Callers :
             ServeNewTypeSucceeds(p) => RoleOpen(svc', proc[p].role)
       /\ \A c \in Clients :
             (Asks(c) /\ state = StateServing /\ AlsoAllowed(cl'[c].tgt)) =>
                Accepted(c)]_vars

\* serveNewType has returned from its branch for a replica, the node
\* serves, and a request for BATCH, a type of alsoAllow, is in its body.
C29_Witness ==
    /\ state = StateServing
    /\ target.TabletType = REPLICA
    /\ \E p \in Callers : proc[p].fn = "return" /\ proc[p].err = OK
                          /\ proc[p].changed
    /\ RoleOpen(svc, REPLICA)
    /\ \E c \in Clients : cl[c].pc = "exec" /\ cl[c].tgt.TabletType = BATCH

(***************************************************************************)
(* The drain of the transitions out of Serving (SpecRequests).             *)
(***************************************************************************)
\* The state of a transition that is under way.
Intermediate(st) == st \in {StateTransitioning, StateShuttingDown}

\* C30 as stated: when the node leaves the intermediate state of a stop or
\* of a transition that began in Serving, no request that was in flight
\* when it began is still running.
C30_AsStated ==
    [][(Intermediate(state) /\ ~Intermediate(state') /\ ~aborted') =>
          draining = {}]_vars

(***************************************************************************)
(* The probe of CheckMySQL (Spec).                                         *)
(***************************************************************************)
\* The goroutine of CheckMySQL enters isMySQLReachable.
Probes ==
    /\ proc[Prober].fn = "idle"
    /\ proc'[Prober].call = "CheckMySQL"
    /\ proc'[Prober].fn # "idle"

\* isMySQLReachable has the answer of MySQL and runs its deferred call.
ProbeEnds ==
    /\ proc[Prober].fn = "isMySQLReachable"
    /\ proc'[Prober] # proc[Prober]
    /\ ~aborted'

\* The probe is between its unlock and its deferred call, in the way of
\* the state it found.
Probing(role) ==
    proc[Prober].fn = "isMySQLReachable" /\ proc[Prober].role = role

\* C31: in Serving the probe adds one to the drain counter, leaves the
\* state, and gives the unit back when it ends; in NotServing it sets the
\* state to Transitioning, the state stays Transitioning while it asks
\* MySQL, a SetServingType called meanwhile is rejected with
\* FAILED_PRECONDITION, and the probe sets NotServing when it ends; in
\* NotConnected, Transitioning and ShuttingDown it asks nothing, answers
\* reachable (StopService is not called) and changes nothing of the node.
C31_ProbeByState ==
    /\ [](Probing("request") => requests >= 1)
    /\ [](Probing("transition") => state = StateTransitioning)
    /\ [][/\ Probes =>
                CASE state = StateServing ->
                        /\ Probing("request")'
                        /\ requests' = requests + 1
                        /\ state' = state
                  [] state = StateNotServing ->
                        /\ Probing("transition")'
                        /\ state' = StateTransitioning
                        /\ requests' = requests
                  [] OTHER ->
                        /\ proc'[Prober].fn = "release"
                        /\ UNCHANGED <<state, requests, target, alsoAllow, svc,
                                       lameduck, draining>>
          /\ (ProbeEnds /\ Probing("request")) =>
                requests' = requests - 1 /\ state' = state
          /\ (ProbeEnds /\ Probing("transition")) =>
                state' = StateNotServing /\ requests' = requests
          /\ \A p \in Callers :
                (CallsSetServingType(p) /\ Probing("transition")) =>
                   /\ proc'[p].err = FAILED_PRECONDITION
                   /\ proc'[p].fn = "return"
                   /\ state' = state]_vars

\* A SetServingType has been rejected while the probe that found
\* NotServing holds the state Transitioning.
C31_Witness ==
    /\ Probing("transition")
    /\ state = StateTransitioning
    /\ \E p \in Callers : /\ proc[p].call = "SetServingType"
                          /\ proc[p].fn = "return"
                          /\ proc[p].err = FAILED_PRECONDITION

(***************************************************************************)
(* The hot-row gate (SpecOperations).                                      *)
(***************************************************************************)
\* Client c, inside BeginExecute or ExecuteBatch, invokes the done callback
\* of the hot-row gate.
InvokesDone(c) ==
    /\ cl[c].op \in {"BeginExecute", "ExecuteBatch"}
    /\ cl'[c].op = cl[c].op
    /\ cl'[c].released = cl[c].released + 1

\* C32 as stated: BeginExecute and ExecuteBatch invoke the done callback
\* only when the transaction they began has been committed or rolled back.
C32_AsStated ==
    [][\A c \in Clients : InvokesDone(c) => cl'[c].open = 0]_vars

\* The body of the hot-row gate of client c ends without an error and
\* hands over no done callback: the key is empty.
PassesGate(c) ==
    /\ cl[c].pc = "run"
    /\ Top(c).fn = "waitForSameRangeTransactions"
    /\ Top(c).pc = "body"
    /\ cl'[c] # cl[c]
    /\ cl'[c].pc = "run"
    /\ cl'[c].rv.err = OK
    /\ ~cl'[c].rv.txDone

\* C33: a call is handed at most one done callback and never invokes more
\* callbacks than it was handed; when BeginExecute or ExecuteBatch has
\* returned, with an error or without, it has invoked every done callback it
\* was handed exactly once; a call whose key is empty is handed no callback
\* and goes on to its next step.
C33_DoneExactlyOnce ==
    /\ [](\A c \in Clients :
            /\ cl[c].released <= cl[c].got
            /\ cl[c].got <= 1
            /\ cl[c].pc = "ret" => cl[c].released = cl[c].got)
    /\ [][\A c \in Clients :
             PassesGate(c) =>
                /\ cl'[c].got = cl[c].got
                /\ cl'[c].released = cl[c].released
                /\ Len(cl'[c].stack) = Len(cl[c].stack) - 1]_vars

\* ExecuteBatch was handed a done callback, was then refused by
\* startRequest, and has returned the error with the callback invoked once.
C33_Witness ==
    \E c \in Clients :
       /\ cl[c].pc = "ret"
       /\ cl[c].op = "ExecuteBatch"
       /\ cl[c].err = FAILED_PRECONDITION
       /\ cl[c].got = 1
       /\ cl[c].released = 1

(***************************************************************************)
(* The time bomb (SpecTimeBomb).                                           *)
(***************************************************************************)
\* Caller or probe p is inside gracefulStop or StopService: the function
\* has called setTimeBomb and has not returned.
InStop(p) ==
    \/ proc[p].fn = "waitForShutdown"
    \/ proc[p].fn \in {"gracefulStop", "StopService"} /\ proc[p].i >= 1

\* C34: the done channel of a time bomb is open exactly while the
\* gracefulStop or the StopService that armed it has not returned; the
\* process aborts only while such a stop is in progress and the query
\* timeout is not zero; with a query timeout of zero it never aborts.
C34_TimeBomb ==
    /\ [](\A p \in Procs : proc[p].bomb <=> InStop(p))
    /\ [](queryTimeout = "zero" => ~aborted)
    /\ [][(~aborted /\ aborted') =>
             /\ queryTimeout # "zero"
             /\ \E p \in Procs : InStop(p)]_vars

\* The time bomb of a node with a positive query timeout has ended the
\* process.
C34_Witness == aborted /\ queryTimeout = "positive"

(***************************************************************************)
(* The order of the states (Spec).                                         *)
(***************************************************************************)
\* The states in which the node rests.
Stable(st) == st \in {StateNotConnected, StateNotServing, StateServing}

\* The state changes while the process lives.
StateChanges == state' # state /\ ~aborted'

\* C35 as stated: a stable state is entered only from Transitioning.
C35_AsStated ==
    [][(StateChanges /\ Stable(state')) => state = StateTransitioning]_vars

\* C35: the state never changes from a stable state to another stable
\* state: it leaves a stable state only for Transitioning or ShuttingDown
\* and enters one only from them; a start or a change of type shows
\* Transitioning until it ends in Serving, or in NotConnected when it
\* fails, and the probe shows it until it sets NotServing back; a stop
\* shows ShuttingDown until it ends in NotServing or NotConnected.
C35_NoDirectChange ==
    [][StateChanges =>
          CASE Stable(state) -> Intermediate(state')
            [] state = StateTransitioning ->
                  state' \in {StateServing, StateNotConnected, StateNotServing}
            [] state = StateShuttingDown ->
                  state' \in {StateNotServing, StateNotConnected}]_vars

\* A graceful stop has set NotServing; ShuttingDown, not Transitioning, was
\* the state since Serving.
C35_Witness ==
    /\ state = StateNotServing
    /\ \E p \in Callers : /\ proc[p].call = "SetServingType"
                          /\ proc[p].fn = "gracefulStop"
                          /\ proc[p].i = 2

(***************************************************************************)
(* The rejected SetServingType (Spec).                                     *)
(***************************************************************************)
\* Caller p calls SetServingType and decideAction rejects the call.
Rejected(p) ==
    /\ CallsSetServingType(p)
    /\ proc'[p].err = FAILED_PRECONDITION

\* C36 as stated: a rejected SetServingType changes neither the state nor
\* target.TabletType, nor anything else of the node but alsoAllow.
C36_AsStated ==
    [][\A p \in Callers :
          Rejected(p) =>
             /\ state' = state
             /\ target'.TabletType = target.TabletType
             /\ UNCHANGED <<requests, svc, configDB, draining>>]_vars

(***************************************************************************)
(* The drain counter at rest (SpecRequests).                               *)
(***************************************************************************)
\* C37 as stated: whenever the state is NotServing or NotConnected the
\* drain counter is zero.
C37_AsStated ==
    state \in {StateNotServing, StateNotConnected} => requests = 0

(***************************************************************************)
(* The sub-components of the role while the node serves (Spec).            *)
(***************************************************************************)
\* C38 as stated: whenever the state is Serving, the sub-components of the
\* role are those of the branch of serveNewType for target.TabletType.
C38_AsStated == state = StateServing => RoleOpen(svc, target.TabletType)

(***************************************************************************)
(* The two checks of a target (SpecTarget).                                *)
(***************************************************************************)
\* C39: for every target of the node, alsoAllow, target of the call (or
\* none) and context, verifyTarget returns what startRequest returns in
\* Serving: nil, or an error of the same code.
C39_SameCheck == conv.pc = "started" => conv.verified = conv.started

\* Both have refused a call without a target from a context that is not
\* local.
C39_Witness ==
    /\ conv.pc = "started"
    /\ conv.tgt = NilTarget
    /\ ~conv.isLocal
    /\ conv.verified = INVALID_ARGUMENT
    /\ conv.started = INVALID_ARGUMENT

AdmitsInShutdown == state = StateShuttingDown /\ requests' > requests

====
